---- MODULE Spec2Model ----
(***************************************************************************)
(* Batch download orchestrator of the music player (src-tauri).            *)
(*                                                                         *)
(* Two implementations of the batch job live in the repository and both    *)
(* are modelled, selected by job.variant:                                  *)
(*   "service" : services/download.rs, DownloadService                     *)
(*   "legacy"  : download_commands.rs, the command registered in lib.rs    *)
(*                                                                         *)
(* One job runs per behaviour.  The orchestrator is a sequential process   *)
(* (pc); every task spawned with tokio::spawn is a concurrent process of   *)
(* its own, kept in the table `tasks` until its JoinHandle is reaped.      *)
(*                                                                         *)
(* Three smaller parts of the application have specifications of their    *)
(* own, in which no download runs: the command builders (BuilderSpec),     *)
(* the shared Spotify session state (SessionSpec) and the liked-songs      *)
(* stream (StreamSpec).                                                    *)
(*                                                                         *)
(* Status strings: the glyphs of the source are written as ASCII tags,     *)
(*   "[ok]" U+2705, "[x]" U+274C, "[warn]" U+26A0, "[clock]" U+23F1.       *)
(***************************************************************************)
EXTENDS Integers, Sequences, FiniteSets, TLC

(***************************************************************************)
(* Bounds of the model                                                     *)
(***************************************************************************)
MaxUrls == 4

(***************************************************************************)
(* Program constants                                                       *)
(***************************************************************************)
MIN_DELAY_SECS == 2
MAX_DELAY_SECS == 10
SPOTDL_TIMEOUT_SECS == 300
MAX_SONGS_PER_BATCH == 100
MAX_CONCURRENT_DOWNLOADS == 3
CHECK_TIMEOUT_SECS == 5
MAX_SEGMENT_SIZE == 50
MIN_SEGMENT_SIZE == 1

Min(a, b) == IF a <= b THEN a ELSE b
Max(a, b) == IF a >= b THEN a ELSE b

(***************************************************************************)
(* Inputs                                                                  *)
(***************************************************************************)
GoodUrl == "https://open.spotify.com/track/abc"
BadUrl == "https://example.com/track/abc"

\* url.starts_with("https://open.spotify.com/track/")
StartsWithTrackPrefix(url) == url \in {GoodUrl}

valid_formats == {"mp3", "flac", "ogg", "m4a", "opus"}

\* An output directory is abstracted to the two facts validate_output_path
\* reads: whether the text contains ".." and whether its parent exists.
NoDir == [some |-> FALSE, dotdot |-> FALSE, parent_exists |-> FALSE]
OkDir == [some |-> TRUE, dotdot |-> FALSE, parent_exists |-> TRUE]
TraversalDir == [some |-> TRUE, dotdot |-> TRUE, parent_exists |-> TRUE]
OrphanDir == [some |-> TRUE, dotdot |-> FALSE, parent_exists |-> FALSE]

Variants == {"service", "legacy"}
SegmentSizes == {3, 60}
SmallSegmentSizes == {0, 1, 2}
Delays == {0, 5, 30}

UrlList(k, u) == [i \in 1..k |-> u]

\* The commands the caller can invoke (lib.rs, commands/download.rs)
BatchCommand == "download_spotify_tracks_segmented"
SingleCommand == "download_single_spotify_track"
ProbeCommand == "check_spotdl_installed"

NewJob(v, us, s, d, f, dir, sink) ==
    [command |-> BatchCommand, variant |-> v, urls |-> us,
     segment_size |-> s, delay |-> d,
     format |-> f, output_dir |-> dir, sink |-> sink]

\* The arguments of the single-track command (its url is urls[1])
NewSingle(url, f, dir, sink) ==
    [command |-> SingleCommand, variant |-> "service", urls |-> <<url>>,
     segment_size |-> 0, delay |-> 0,
     format |-> f, output_dir |-> dir, sink |-> sink]

\* The probe command takes no argument
ProbeCall ==
    [command |-> ProbeCommand, variant |-> "service", urls |-> <<>>,
     segment_size |-> 0, delay |-> 0,
     format |-> "", output_dir |-> NoDir, sink |-> "reliable"]

\* Jobs that pass validation: lists of every length up to MaxUrls, cut into
\* segments of the window's size or run as one segment; a list of the
\* window's size cut into small segments, with an event sink whose emits
\* can fail; and, for a two-segment list, the delays below, inside and
\* above the allowed range.
ValidJobs ==
    {NewJob(v, UrlList(k, GoodUrl), s, 5, "mp3", NoDir, "reliable") :
        v \in Variants, k \in 1..MaxUrls, s \in SegmentSizes}
    \cup
    {NewJob(v, UrlList(MAX_CONCURRENT_DOWNLOADS, GoodUrl), s, 5, "mp3", NoDir, "flaky") :
        v \in Variants, s \in SmallSegmentSizes}
    \cup
    {NewJob(v, UrlList(2, GoodUrl), 1, d, "flac", OkDir, "reliable") :
        v \in Variants, d \in Delays}

\* Jobs that exercise the validation rules, alone and combined (one of the
\* combinations passes them all).
RuleJobs ==
    {NewJob(v, us, 2, 5, f, dir, "flaky") :
        v \in Variants,
        us \in {UrlList(0, GoodUrl), UrlList(MAX_SONGS_PER_BATCH + 1, GoodUrl),
                <<GoodUrl, BadUrl>>, <<GoodUrl>>},
        f \in {"mp3", "wav"},
        dir \in {NoDir, TraversalDir, OrphanDir}}
    \cup
    {NewJob(v, UrlList(MAX_SONGS_PER_BATCH, u), 2, 5, "wav", NoDir, "flaky") :
        v \in Variants, u \in {GoodUrl, BadUrl}}

\* Invocations of the single-track command
SingleJobs ==
    {NewSingle(url, f, dir, sink) :
        url \in {GoodUrl, BadUrl}, f \in {"mp3", "wav"},
        dir \in {NoDir, OkDir, TraversalDir, OrphanDir},
        sink \in {"reliable", "flaky"}}

Jobs == ValidJobs \cup RuleJobs \cup SingleJobs \cup {ProbeCall}

(***************************************************************************)
(* State                                                                   *)
(***************************************************************************)
VARIABLES
    job,                \* the caller's arguments
    pc,                 \* position of the orchestrator
    ret,                \* return value of the job: "none" until it returns
    ret_value,          \* what the returned Ok or error variant carries
    awaited,            \* history: what the command's own awaited process yielded
    final_segment_size,
    final_delay,
    total,
    total_downloaded,
    total_failed,
    segment_idx,
    idx_in_chunk,
    downloaded,         \* per-segment counters of process_download_segment
    failed,
    download_tasks,     \* FuturesUnordered: global indices of the handles held
    tasks,              \* runtime task table: global index -> task record
    spawned,            \* history: global indices in spawn order
    outcome,            \* history: what each position's process or task did
    progress,           \* "download-progress" emits attempted, per position
    segment_events,     \* "download-segment-finished" emits attempted
    finished_events,    \* "download-finished" emits attempted
    error_events,       \* number of "download-error" emits attempted
    delays,             \* durations of the sleeps taken between segments
    segment_tallies,    \* history: (downloaded, failed) each segment returned
    emit_failed,        \* history: some emit returned Err (always discarded)
    command_line,       \* the command builders' inputs and argument lists
    session,            \* SpotifyState and the calls made on it
    stream              \* the liked-songs stream: its locals, events, return

vars == <<job, pc, ret, ret_value, awaited, final_segment_size, final_delay, total,
          total_downloaded, total_failed, segment_idx, idx_in_chunk,
          downloaded, failed, download_tasks, tasks, spawned, outcome,
          progress, segment_events, finished_events, error_events, delays,
          segment_tallies, emit_failed, command_line, session, stream>>

download_vars == <<job, pc, ret, ret_value, awaited, final_segment_size, final_delay,
          total, total_downloaded, total_failed, segment_idx, idx_in_chunk,
          downloaded, failed, download_tasks, tasks, spawned, outcome,
          progress, segment_events, finished_events, error_events, delays,
          segment_tallies, emit_failed>>

other_vars == <<command_line, session, stream>>

orchestrator_vars == <<pc, ret, ret_value, awaited, final_segment_size, final_delay, total,
          total_downloaded, total_failed, segment_idx, idx_in_chunk,
          downloaded, failed, download_tasks, spawned,
          segment_events, finished_events, error_events, delays,
          segment_tallies>>

\* What app_handle.emit can return for this job's sink: Ok (TRUE) or Err
EmitResults == IF job.sink = "flaky" THEN BOOLEAN ELSE {TRUE}

\* Nothing carried / nothing awaited yet
NoValue == [names |-> {}, secs |-> 0, text |-> <<>>, status |-> "none"]
NotAwaited == [kind |-> "none", success |-> FALSE, stdout |-> <<>>]

\* Nothing built yet, no call made on the session state, no stream started
NotBuilt == [built |-> FALSE, args |-> <<>>]
NoCommandLine ==
    [url |-> "", format |-> "", output_dir |-> [some |-> FALSE, text |-> <<>>],
     output_template |-> <<>>, service |-> NotBuilt, legacy |-> NotBuilt]
NoSession == [client |-> 0, user |-> 0, calls |-> <<>>]
NoStream == [pc |-> "idle"]

\* Where each command starts
EntryPoint(command) ==
    CASE command = BatchCommand -> "validate"
      [] command = SingleCommand -> "single_validate"
      [] command = ProbeCommand -> "standalone"

Init ==
    /\ job \in Jobs
    /\ pc = EntryPoint(job.command)
    /\ ret = "none"
    /\ ret_value = NoValue
    /\ awaited = NotAwaited
    /\ final_segment_size = 0
    /\ final_delay = 0
    /\ total = 0
    /\ total_downloaded = 0
    /\ total_failed = 0
    /\ segment_idx = 0
    /\ idx_in_chunk = 0
    /\ downloaded = 0
    /\ failed = 0
    /\ download_tasks = {}
    /\ tasks = <<>>
    /\ spawned = <<>>
    /\ outcome = <<>>
    /\ progress = <<>>
    /\ segment_events = <<>>
    /\ finished_events = <<>>
    /\ error_events = 0
    /\ delays = <<>>
    /\ segment_tallies = <<>>
    /\ emit_failed = FALSE
    /\ command_line = NoCommandLine
    /\ session = NoSession
    /\ stream = NoStream

(***************************************************************************)
(* Validation layer                                                        *)
(***************************************************************************)
\* utils::validate_batch_size(len, max): rejects a batch above the ceiling.
validate_batch_size(len, max) ==
    IF len > max THEN "TooManySongs" ELSE "ok"

\* The format test with "wav" let through
validate_download_format_AcceptsWav(format) ==
    IF format \notin (valid_formats \cup {"wav"}) THEN "InvalidFormat" ELSE "ok"

\* utils::validation::validate_download_format
validate_download_format(format) ==
    IF format \notin valid_formats THEN "InvalidFormat" ELSE "ok"

\* utils::validation::validate_spotify_url
validate_spotify_url(url) ==
    IF ~StartsWithTrackPrefix(url) THEN "InvalidUrl" ELSE "ok"

\* utils::path::validate_output_path
validate_output_path(dir) ==
    IF dir.dotdot THEN "PathTraversal"
    ELSE IF ~dir.parent_exists THEN "NotFound"
    ELSE "ok"

\* The first url of the list that fails validate_spotify_url, 0 if none.
FirstBadUrl(urls) ==
    IF \E i \in 1..Len(urls) : validate_spotify_url(urls[i]) # "ok"
    THEN CHOOSE i \in 1..Len(urls) :
            /\ validate_spotify_url(urls[i]) # "ok"
            /\ \A k \in 1..(i - 1) : validate_spotify_url(urls[k]) = "ok"
    ELSE 0

\* The validations with the urls looked at before the format
service_validate_UrlsBeforeFormat(j) ==
    IF Len(j.urls) = 0 THEN "Failed"
    ELSE IF validate_batch_size(Len(j.urls), MAX_SONGS_PER_BATCH) # "ok"
        THEN validate_batch_size(Len(j.urls), MAX_SONGS_PER_BATCH)
    ELSE IF FirstBadUrl(j.urls) # 0
        THEN validate_spotify_url(j.urls[FirstBadUrl(j.urls)])
    ELSE IF validate_download_format(j.format) # "ok"
        THEN validate_download_format(j.format)
    ELSE IF j.output_dir.some /\ validate_output_path(j.output_dir) # "ok"
        THEN validate_output_path(j.output_dir)
    ELSE "ok"

\* The validations without the test for an empty list
service_validate_NoEmptyCheck(j) ==
    IF validate_batch_size(Len(j.urls), MAX_SONGS_PER_BATCH) # "ok"
        THEN validate_batch_size(Len(j.urls), MAX_SONGS_PER_BATCH)
    ELSE IF validate_download_format(j.format) # "ok"
        THEN validate_download_format(j.format)
    ELSE IF FirstBadUrl(j.urls) # 0
        THEN validate_spotify_url(j.urls[FirstBadUrl(j.urls)])
    ELSE IF j.output_dir.some /\ validate_output_path(j.output_dir) # "ok"
        THEN validate_output_path(j.output_dir)
    ELSE "ok"

\* DownloadService::download_tracks_segmented, the input validations:
\* "ok" or the kind of the error returned.
service_validate(j) ==
    IF Len(j.urls) = 0 THEN "Failed"
    ELSE IF validate_batch_size(Len(j.urls), MAX_SONGS_PER_BATCH) # "ok"
        THEN validate_batch_size(Len(j.urls), MAX_SONGS_PER_BATCH)
    ELSE IF validate_download_format(j.format) # "ok"
        THEN validate_download_format(j.format)
    ELSE IF FirstBadUrl(j.urls) # 0
        THEN validate_spotify_url(j.urls[FirstBadUrl(j.urls)])
    ELSE IF j.output_dir.some /\ validate_output_path(j.output_dir) # "ok"
        THEN validate_output_path(j.output_dir)
    ELSE "ok"

\* The legacy validations with the ceiling test written >= for >
legacy_validate_CeilingOffByOne(j) ==
    IF Len(j.urls) = 0 THEN "Lista de URLs vacia"
    ELSE IF Len(j.urls) >= MAX_SONGS_PER_BATCH
        THEN "Demasiadas canciones. Maximo: 100"
    ELSE IF j.format \notin valid_formats
        THEN "Formato invalido. Usa: mp3, flac, ogg, m4a, opus"
    ELSE IF \E i \in 1..Len(j.urls) : ~StartsWithTrackPrefix(j.urls[i])
        THEN "URL invalida: debe ser una URL de Spotify track"
    ELSE IF j.output_dir.some /\ j.output_dir.dotdot
        THEN "Ruta invalida: contiene '..'"
    ELSE IF j.output_dir.some /\ ~j.output_dir.parent_exists
        THEN "El directorio no existe"
    ELSE "ok"

\* download_commands::download_spotify_tracks_segmented, the input
\* validations: "ok" or the message returned (accents dropped).
legacy_validate(j) ==
    IF Len(j.urls) = 0 THEN "Lista de URLs vacia"
    ELSE IF Len(j.urls) > MAX_SONGS_PER_BATCH
        THEN "Demasiadas canciones. Maximo: 100"
    ELSE IF j.format \notin valid_formats
        THEN "Formato invalido. Usa: mp3, flac, ogg, m4a, opus"
    ELSE IF \E i \in 1..Len(j.urls) : ~StartsWithTrackPrefix(j.urls[i])
        THEN "URL invalida: debe ser una URL de Spotify track"
    ELSE IF j.output_dir.some /\ j.output_dir.dotdot
        THEN "Ruta invalida: contiene '..'"
    ELSE IF j.output_dir.some /\ ~j.output_dir.parent_exists
        THEN "El directorio no existe"
    ELSE "ok"

\* The clamp without its .min(50)
ClampSegmentSize_NoCeiling(segment_size) == Max(segment_size, MIN_SEGMENT_SIZE)

\* segment_size.max(1).min(50)
ClampSegmentSize(segment_size) ==
    Min(Max(segment_size, MIN_SEGMENT_SIZE), MAX_SEGMENT_SIZE)

\* The clamp without its lower end
ClampDelay_NoFloor(delay) == Min(delay, MAX_DELAY_SECS)

\* delay.clamp(MIN_DELAY_SECS, MAX_DELAY_SECS)
ClampDelay(delay) ==
    IF delay < MIN_DELAY_SECS THEN MIN_DELAY_SECS
    ELSE IF delay > MAX_DELAY_SECS THEN MAX_DELAY_SECS
    ELSE delay

\* What the error of a failed validation carries: the format error lists
\* valid_formats.join(", ").
ValidationValue(v) ==
    IF v \in {"InvalidFormat", "Formato invalido. Usa: mp3, flac, ogg, m4a, opus"}
    THEN [NoValue EXCEPT !.names = valid_formats]
    ELSE NoValue

\* The validations of the job; the legacy command also fixes its clamped
\* parameters here, once the list-size rules have passed.
Validate ==
    /\ pc = "validate"
    /\ LET v == IF job.variant = "service" THEN service_validate(job)
                ELSE legacy_validate(job)
           sized == Len(job.urls) > 0 /\ Len(job.urls) <= MAX_SONGS_PER_BATCH
       IN /\ pc' = IF v = "ok" THEN "probe" ELSE "done"
          /\ ret' = IF v = "ok" THEN "none" ELSE v
          /\ ret_value' = IF v = "ok" THEN NoValue ELSE ValidationValue(v)
          /\ IF job.variant = "legacy" /\ sized
             THEN /\ final_segment_size' = ClampSegmentSize(job.segment_size)
                  /\ final_delay' = ClampDelay(job.delay)
             ELSE UNCHANGED <<final_segment_size, final_delay>>
    /\ UNCHANGED <<job, awaited, total, total_downloaded, total_failed,
                   segment_idx,
                   idx_in_chunk, downloaded, failed, download_tasks, tasks,
                   spawned, outcome, progress, segment_events,
                   finished_events, error_events, delays, segment_tallies, emit_failed>>
    /\ UNCHANGED other_vars

(***************************************************************************)
(* External tool probe                                                     *)
(***************************************************************************)
\* The value of timeout(5s, `spotdl --version`): the process's output (its
\* stdout a sequence of characters), a spawn failure, or the timer's Elapsed.
MaxStdout == 3
Whitespace == {" ", "\n"}
StdoutChars == Whitespace \cup {"4"}
Stdouts == UNION {[1..n -> StdoutChars] : n \in 0..MaxStdout}

ProbeOutput(success, stdout) ==
    [kind |-> "Output", success |-> success, stdout |-> stdout]
ProbeIoError == [kind |-> "IoError", success |-> FALSE, stdout |-> <<>>]
ProbeElapsed == [kind |-> "Elapsed", success |-> FALSE, stdout |-> <<>>]

\* Every value the probe can yield, and the ones drawn for a job's probe
AllProbeResults ==
    {ProbeOutput(ok, out) : ok \in BOOLEAN, out \in Stdouts}
        \cup {ProbeIoError, ProbeElapsed}
ProbeResults ==
    {ProbeOutput(TRUE, <<"4", "\n">>), ProbeOutput(FALSE, <<>>),
     ProbeIoError, ProbeElapsed}

\* str::trim: leading and trailing whitespace removed
RECURSIVE TrimStart(_)
TrimStart(text) ==
    IF Len(text) > 0 /\ Head(text) \in Whitespace
    THEN TrimStart(Tail(text)) ELSE text

RECURSIVE TrimEnd(_)
TrimEnd(text) ==
    IF Len(text) > 0 /\ text[Len(text)] \in Whitespace
    THEN TrimEnd(SubSeq(text, 1, Len(text) - 1)) ELSE text

Trim(text) == TrimEnd(TrimStart(text))

ProbeOk(version) == [ok |-> TRUE, version |-> version, err |-> "none", secs |-> 0]
ProbeErr(err, secs) == [ok |-> FALSE, version |-> <<>>, err |-> err, secs |-> secs]

\* check_installed with the guard `if output.status.success()` left out
check_installed_AnyOutputOk(probe) ==
    IF probe.kind = "Output" THEN ProbeOk(Trim(probe.stdout))
    ELSE IF probe.kind = "IoError" THEN ProbeErr("SpotdlNotInstalled", 0)
    ELSE ProbeErr("Timeout", CHECK_TIMEOUT_SECS)

\* check_installed without the trim() of the version text
check_installed_Untrimmed(probe) ==
    IF probe.kind = "Output" /\ probe.success THEN ProbeOk(probe.stdout)
    ELSE IF probe.kind = "Output" THEN ProbeErr("SpotdlNotInstalled", 0)
    ELSE IF probe.kind = "IoError" THEN ProbeErr("SpotdlNotInstalled", 0)
    ELSE ProbeErr("Timeout", CHECK_TIMEOUT_SECS)

\* DownloadService::check_installed: Ok(version) or the error
check_installed(probe) ==
    IF probe.kind = "Output" /\ probe.success THEN ProbeOk(Trim(probe.stdout))
    ELSE IF probe.kind = "Output" THEN ProbeErr("SpotdlNotInstalled", 0)
    ELSE IF probe.kind = "IoError" THEN ProbeErr("SpotdlNotInstalled", 0)
    ELSE ProbeErr("Timeout", CHECK_TIMEOUT_SECS)

\* The probe inlined in the legacy command.
legacy_check(probe) ==
    IF probe.kind = "Output" /\ probe.success THEN ProbeOk(Trim(probe.stdout))
    ELSE ProbeErr("spotdl no esta instalado o no responde", 0)

\* The probe of the job and, on success, the set-up of the segment loop.
CheckInstalled ==
    /\ pc = "probe"
    /\ \E probe \in ProbeResults, emit_ok \in EmitResults :
        LET v == IF job.variant = "service" THEN check_installed(probe)
                 ELSE legacy_check(probe)
        IN /\ awaited' = probe
           /\ IF v.ok
              THEN /\ pc' = "spawn"
                   /\ ret' = "none"
                   /\ ret_value' = NoValue
                   /\ final_segment_size' = ClampSegmentSize(job.segment_size)
                   /\ final_delay' = ClampDelay(job.delay)
                   /\ total' = Len(job.urls)
                   /\ emit_ok
                   /\ UNCHANGED <<error_events, emit_failed>>
              ELSE /\ pc' = "done"
                   /\ ret' = v.err
                   /\ ret_value' = [NoValue EXCEPT !.secs = v.secs]
                   /\ IF job.variant = "legacy"
                      THEN /\ error_events' = error_events + 1
                           /\ emit_failed' = (emit_failed \/ ~emit_ok)
                      ELSE /\ emit_ok
                           /\ UNCHANGED <<error_events, emit_failed>>
                   /\ UNCHANGED <<final_segment_size, final_delay, total>>
    /\ UNCHANGED <<job, total_downloaded, total_failed, segment_idx,
                   idx_in_chunk, downloaded, failed, download_tasks, tasks,
                   spawned, outcome, progress, segment_events,
                   finished_events, delays, segment_tallies>>
    /\ UNCHANGED other_vars

\* The probe command: check_installed called on its own
CheckStandalone ==
    /\ pc = "standalone"
    /\ \E probe \in AllProbeResults :
        LET v == check_installed(probe)
        IN /\ awaited' = probe
           /\ ret' = IF v.ok THEN "Ok" ELSE v.err
           /\ ret_value' = [NoValue EXCEPT !.secs = v.secs, !.text = v.version]
    /\ pc' = "done"
    /\ UNCHANGED <<job, final_segment_size, final_delay, total,
                   total_downloaded, total_failed, segment_idx, idx_in_chunk,
                   downloaded, failed, download_tasks, tasks, spawned, outcome,
                   progress, segment_events, finished_events, error_events,
                   delays, segment_tallies, emit_failed>>
    /\ UNCHANGED other_vars

(***************************************************************************)
(* Single-track executor                                                   *)
(***************************************************************************)
AudioProviderError == "AudioProviderError"
YtDlpDownloadError == "YT-DLP download error"
Markers == {AudioProviderError, YtDlpDownloadError}

\* The value of timeout(300s, cmd.output()).  stdout is abstracted to the
\* set of marker texts it contains, so stdout.contains(m) is m \in stdout.
Elapsed == [kind |-> "Elapsed", success |-> FALSE, stdout |-> {}]
IoError == [kind |-> "IoError", success |-> FALSE, stdout |-> {}]
Output(success, stdout) ==
    [kind |-> "Output", success |-> success, stdout |-> stdout]

\* The timer fires first: the exit status and output the process would have
\* produced had it been left to run are dropped with the future.
ElapsedAfter(success, stdout) ==
    [kind |-> "Elapsed", success |-> success, stdout |-> stdout]

\* What a task's process can do, and the values each behaviour produces.
ProcessOutcomes ==
    {"success", "provider_error", "exit_failure", "io_error", "timeout"}

ResultsOf(o) ==
    CASE o = "success" -> {Output(TRUE, {})}
      [] o = "provider_error" -> {Output(TRUE, {m}) : m \in Markers}
      [] o = "exit_failure" -> {Output(FALSE, {}), Output(FALSE, {AudioProviderError})}
      [] o = "io_error" -> {IoError}
      [] o = "timeout" ->
            {ElapsedAfter(ok, out) :
                ok \in BOOLEAN, out \in {{}, {AudioProviderError}}}

StatusDownloaded == "[ok] Descargada"
StatusExitFailure == "[x] <first line of stderr, 100 chars>"
StatusIoError == "[warn] Error: <io error>"
StatusTimeout == "[clock] Timeout (>5min)"
StatusYouTube == "[warn] Error de YouTube"

OkStatus(status) == [ok |-> TRUE, status |-> status, err |-> "none"]
ErrKind(err) == [ok |-> FALSE, status |-> "none", err |-> err]

\* process_download_output without the look at stdout
process_download_output_IgnoresMarkers(result) ==
    IF result.kind = "Output" /\ result.success THEN OkStatus(StatusDownloaded)
    ELSE IF result.kind = "Output" THEN OkStatus(StatusExitFailure)
    ELSE IF result.kind = "IoError" THEN OkStatus(StatusIoError)
    ELSE OkStatus(StatusTimeout)

\* process_download_output looking at the exit status before the timer
process_download_output_StatusBeforeTimer(result) ==
    IF result.success
    THEN IF AudioProviderError \in result.stdout
            \/ YtDlpDownloadError \in result.stdout
         THEN ErrKind("YouTubeError")
         ELSE OkStatus(StatusDownloaded)
    ELSE IF result.kind = "Output" THEN OkStatus(StatusExitFailure)
    ELSE IF result.kind = "IoError" THEN OkStatus(StatusIoError)
    ELSE OkStatus(StatusTimeout)

\* process_download_output looking for the markers before the exit status
process_download_output_MarkersFirst(result) ==
    IF result.kind = "Output" /\ result.stdout \cap Markers # {}
    THEN ErrKind("YouTubeError")
    ELSE IF result.kind = "Output" /\ result.success THEN OkStatus(StatusDownloaded)
    ELSE IF result.kind = "Output" THEN OkStatus(StatusExitFailure)
    ELSE IF result.kind = "IoError" THEN OkStatus(StatusIoError)
    ELSE OkStatus(StatusTimeout)

\* DownloadService::process_download_output
process_download_output(result) ==
    IF result.kind = "Output" /\ result.success
    THEN IF AudioProviderError \in result.stdout
            \/ YtDlpDownloadError \in result.stdout
         THEN ErrKind("YouTubeError")
         ELSE OkStatus(StatusDownloaded)
    ELSE IF result.kind = "Output" THEN OkStatus(StatusExitFailure)
    ELSE IF result.kind = "IoError" THEN OkStatus(StatusIoError)
    ELSE OkStatus(StatusTimeout)

\* utils::validation::extract_song_id / download_commands::extract_song_name
\* (the text after the last '/', up to the first '?')
extract_song_id(url) ==
    IF url \in {GoodUrl, BadUrl} THEN "abc" ELSE "unknown"

DownloadProgress(t, status) ==
    [song |-> extract_song_id(t.url), index |-> t.index, total |-> t.total,
     status |-> status, url |-> t.url]

\* What DownloadService::download_single_track_with_progress does once the
\* wait for its process is over: the value it returns and the progress
\* events it attempts.
service_track(t, result) ==
    LET out == process_download_output(result)
    IN IF out.ok
       THEN [result |-> "Ok", events |-> <<DownloadProgress(t, out.status)>>]
       ELSE [result |-> "Err", events |-> <<>>]

\* The same for download_commands::download_single_track_with_progress.
legacy_track(t, result) ==
    IF result.kind = "Output" /\ result.success
    THEN IF AudioProviderError \in result.stdout
            \/ YtDlpDownloadError \in result.stdout
         THEN [result |-> "Err",
               events |-> <<DownloadProgress(t, StatusYouTube)>>]
         ELSE [result |-> "Ok",
               events |-> <<DownloadProgress(t, StatusDownloaded)>>]
    ELSE IF result.kind = "Output"
    THEN [result |-> "Ok", events |-> <<DownloadProgress(t, StatusExitFailure)>>]
    ELSE IF result.kind = "IoError"
    THEN [result |-> "Ok", events |-> <<DownloadProgress(t, StatusIoError)>>]
    ELSE [result |-> "Ok", events |-> <<DownloadProgress(t, StatusTimeout)>>]

ProgressOf(i) == IF i \in DOMAIN progress THEN progress[i] ELSE <<>>

\* The emit's error propagated with `?` instead of dropped
task_return_PropagatesEmit(result, emit_ok) ==
    IF emit_ok THEN result ELSE "Err"

\* The value a task returns, given what its track function computed and
\* what its emit returned: `let _ = app_handle.emit(..)` drops the latter.
task_return(result, emit_ok) == result

\* A running task's process ends (or its timeout fires) and the task runs
\* to its return.
TaskComplete(i) ==
    /\ i \in DOMAIN tasks
    /\ tasks[i].state = "running"
    /\ \E o \in ProcessOutcomes :
        \E result \in ResultsOf(o), emit_ok \in EmitResults :
            LET r == IF job.variant = "service"
                     THEN service_track(tasks[i], result)
                     ELSE legacy_track(tasks[i], result)
            IN /\ tasks' = [tasks EXCEPT ![i].state = "finished",
                                         ![i].result =
                                            task_return(r.result, emit_ok)]
               /\ outcome' = (i :> o) @@ outcome
               /\ IF Len(r.events) > 0
                  THEN /\ progress' = (i :> (ProgressOf(i) \o r.events)) @@ progress
                       /\ emit_failed' = (emit_failed \/ ~emit_ok)
                  ELSE /\ emit_ok
                       /\ UNCHANGED <<progress, emit_failed>>
    /\ UNCHANGED job
    /\ UNCHANGED orchestrator_vars
    /\ UNCHANGED other_vars

\* A running task panics: its JoinHandle resolves to a JoinError.
TaskPanic(i) ==
    /\ i \in DOMAIN tasks
    /\ tasks[i].state = "running"
    /\ tasks' = [tasks EXCEPT ![i].state = "finished", ![i].result = "JoinError"]
    /\ outcome' = (i :> "panic") @@ outcome
    /\ UNCHANGED <<job, progress, emit_failed>>
    /\ UNCHANGED orchestrator_vars
    /\ UNCHANGED other_vars

(***************************************************************************)
(* Single-track entry point                                                *)
(***************************************************************************)
\* DownloadService::download_single_track, the input validations
single_validate(j) ==
    IF validate_spotify_url(j.urls[1]) # "ok"
        THEN validate_spotify_url(j.urls[1])
    ELSE IF validate_download_format(j.format) # "ok"
        THEN validate_download_format(j.format)
    ELSE IF j.output_dir.some /\ validate_output_path(j.output_dir) # "ok"
        THEN validate_output_path(j.output_dir)
    ELSE "ok"

SingleValidate ==
    /\ pc = "single_validate"
    /\ LET v == single_validate(job)
       IN /\ pc' = IF v = "ok" THEN "single_run" ELSE "done"
          /\ ret' = IF v = "ok" THEN "none" ELSE v
          /\ ret_value' = IF v = "ok" THEN NoValue ELSE ValidationValue(v)
    /\ UNCHANGED <<job, awaited, final_segment_size, final_delay, total,
                   total_downloaded, total_failed, segment_idx, idx_in_chunk,
                   downloaded, failed, download_tasks, tasks, spawned, outcome,
                   progress, segment_events, finished_events, error_events,
                   delays, segment_tallies, emit_failed>>
    /\ UNCHANGED other_vars

StatusSingleSuccess == "[ok] <song> descargada correctamente"

\* The success test left out: every status returned as success
StartsWithCheck_AnyStatus(status) == TRUE

\* status.starts_with("[ok]"), over the statuses process_download_output
\* can return
StartsWithCheck(status) == status \in {StatusDownloaded}

\* handle_download_result without the emit of its error arm
handle_download_result_NoEventOnError(result, url) ==
    LET out == process_download_output(result)
        t == [index |-> 1, total |-> 1, url |-> url]
    IN IF out.ok
       THEN [events |-> <<DownloadProgress(t, out.status)>>,
             ret |-> IF StartsWithCheck(out.status) THEN "Ok" ELSE "Failed",
             value |-> [NoValue EXCEPT !.status =
                            IF StartsWithCheck(out.status)
                            THEN StatusSingleSuccess ELSE out.status]]
       ELSE [events |-> <<>>, ret |-> out.err, value |-> NoValue]

\* DownloadService::handle_download_result: the progress event attempted
\* (index 1 of 1) and the value returned
handle_download_result(result, url) ==
    LET out == process_download_output(result)
        t == [index |-> 1, total |-> 1, url |-> url]
    IN IF out.ok
       THEN [events |-> <<DownloadProgress(t, out.status)>>,
             ret |-> IF StartsWithCheck(out.status) THEN "Ok" ELSE "Failed",
             value |-> [NoValue EXCEPT !.status =
                            IF StartsWithCheck(out.status)
                            THEN StatusSingleSuccess ELSE out.status]]
       ELSE [events |-> <<DownloadProgress(t, StatusYouTube)>>,
             ret |-> out.err,
             value |-> NoValue]

\* The wait for the command's process, then handle_download_result
SingleRun ==
    /\ pc = "single_run"
    /\ \E o \in ProcessOutcomes :
        \E result \in ResultsOf(o), emit_ok \in EmitResults :
            LET r == handle_download_result(result, job.urls[1])
            IN /\ awaited' = result
               /\ progress' = (1 :> (ProgressOf(1) \o r.events)) @@ progress
               /\ emit_failed' = (emit_failed \/ ~emit_ok)
               /\ ret' = r.ret
               /\ ret_value' = r.value
    /\ pc' = "done"
    /\ UNCHANGED <<job, final_segment_size, final_delay, total,
                   total_downloaded, total_failed, segment_idx, idx_in_chunk,
                   downloaded, failed, download_tasks, tasks, spawned, outcome,
                   segment_events, finished_events, error_events, delays, segment_tallies>>
    /\ UNCHANGED other_vars

(***************************************************************************)
(* Segment executor                                                        *)
(***************************************************************************)
\* The count of chunks taken as the quotient plus one
NumChunks_AlwaysExtra(n, size) == n \div size + 1

\* Number of chunks of urls.chunks(size)
NumChunks(n, size) == (n + size - 1) \div size

\* Chunks that each start on the last element of the one before
Chunks_Overlapping(urls, size) ==
    [c \in 1..NumChunks(Len(urls), size) |->
        SubSeq(urls, Max(1, (c - 1) * size), Min(c * size, Len(urls)))]

\* The whole list handed over as one chunk, whatever the size
Chunks_IgnoresSize(urls, size) == <<urls>>

\* urls.chunks(size), as a sequence of sequences
Chunks(urls, size) ==
    [c \in 1..NumChunks(Len(urls), size) |->
        SubSeq(urls, (c - 1) * size + 1, Min(c * size, Len(urls)))]

chunk == Chunks(job.urls, final_segment_size)[segment_idx + 1]
total_segments == Len(Chunks(job.urls, final_segment_size))

\* count_download_result with the JoinError arm left out of the tally
count_download_result_DropsJoinError(result, d, f) ==
    IF result = "Ok" THEN <<d + 1, f>>
    ELSE IF result = "Err" THEN <<d, f + 1>>
    ELSE <<d, f>>

\* count_download_result with only Ok(Err(_)) in its failure arm
count_download_result_JoinErrorDownloaded(result, d, f) ==
    IF result = "Err" THEN <<d, f + 1>> ELSE <<d + 1, f>>

\* count_download_result falling through: an error counted in both tallies
count_download_result_ErrCountedTwice(result, d, f) ==
    IF result = "Ok" THEN <<d + 1, f>> ELSE <<d + 1, f + 1>>

\* DownloadService::count_download_result: the counters after the tally
count_download_result(result, d, f) ==
    IF result = "Ok" THEN <<d + 1, f>> ELSE <<d, f + 1>>

\* The legacy match with the JoinError arm adding to the downloaded total
legacy_count_JoinErrorDownloaded(result, d, f) ==
    IF result = "Err" THEN <<d, f + 1>> ELSE <<d + 1, f>>

\* The match inlined twice in the legacy command
legacy_count(result, d, f) ==
    CASE result = "Ok" -> <<d + 1, f>>
      [] result = "Err" -> <<d, f + 1>>
      [] result = "JoinError" -> <<d, f + 1>>

\* The window test written with > for >=
WindowFull_OffByOne(len) == len > MAX_CONCURRENT_DOWNLOADS

\* download_tasks.len() >= MAX_CONCURRENT_DOWNLOADS
WindowFull(len) == len >= MAX_CONCURRENT_DOWNLOADS

\* The task spawned for position idx_in_chunk of the current chunk
NewTask(global_idx, url) ==
    [index |-> global_idx, total |-> total, url |-> url,
     state |-> "running", result |-> "pending"]

\* The index computed without the offset of the segment
GlobalIndex_SegmentLocal(seg, size, idx) == idx + 1

\* segment_idx * segment_size + idx_in_chunk + 1
GlobalIndex(seg, size, idx) == seg * size + idx + 1

\* One iteration of the spawn loop, up to its await (or the loop's end)
SpawnTask ==
    /\ pc = "spawn"
    /\ idx_in_chunk < Len(chunk)
    /\ LET global_idx == GlobalIndex(segment_idx, final_segment_size, idx_in_chunk)
           url == chunk[idx_in_chunk + 1]
       IN /\ tasks' = (global_idx :> NewTask(global_idx, url)) @@ tasks
          /\ download_tasks' = download_tasks \cup {global_idx}
          /\ spawned' = Append(spawned, global_idx)
          /\ idx_in_chunk' = idx_in_chunk + 1
          /\ pc' = IF WindowFull(Cardinality(download_tasks') )
                   THEN "window"
                   ELSE IF idx_in_chunk' < Len(chunk) THEN "spawn" ELSE "drain"
    /\ UNCHANGED <<job, ret, ret_value, awaited, final_segment_size, final_delay, total,
                   total_downloaded, total_failed, segment_idx, downloaded,
                   failed, outcome, progress, segment_events, finished_events,
                   error_events, delays, segment_tallies, emit_failed>>
    /\ UNCHANGED other_vars

\* Handles yielded in spawn order only, as by awaiting them one by one
Ready_OldestOnly(i) ==
    /\ i \in download_tasks
    /\ i \in DOMAIN tasks
    /\ tasks[i].state = "finished"
    /\ \A k \in download_tasks : i <= k

\* The handle of a task that panicked never yielded
Ready_SkipsJoinError(i) ==
    /\ i \in download_tasks
    /\ i \in DOMAIN tasks
    /\ tasks[i].state = "finished"
    /\ tasks[i].result # "JoinError"

\* FuturesUnordered::next can yield the handle i: it is held and its task
\* has finished, whatever its place in the spawn order and its result
Ready(i) ==
    /\ i \in download_tasks
    /\ i \in DOMAIN tasks
    /\ tasks[i].state = "finished"

\* download_tasks.next().await yields the handle i, whose task has finished;
\* the result is tallied: into the segment's counters by the service, into
\* the job's totals by the legacy command.
Reap(i) ==
    /\ Ready(i)
    /\ download_tasks' = download_tasks \ {i}
    /\ tasks' = [k \in (DOMAIN tasks) \ {i} |-> tasks[k]]
    /\ IF job.variant = "service"
       THEN /\ downloaded' = count_download_result(tasks[i].result, downloaded, failed)[1]
            /\ failed' = count_download_result(tasks[i].result, downloaded, failed)[2]
            /\ UNCHANGED <<total_downloaded, total_failed>>
       ELSE /\ total_downloaded' =
                    legacy_count(tasks[i].result, total_downloaded, total_failed)[1]
            /\ total_failed' =
                    legacy_count(tasks[i].result, total_downloaded, total_failed)[2]
            /\ UNCHANGED <<downloaded, failed>>

\* The wait inside the spawn loop, taken when the window is full
WindowReap(i) ==
    /\ pc = "window"
    /\ Reap(i)
    /\ pc' = IF idx_in_chunk < Len(chunk) THEN "spawn" ELSE "drain"
    /\ UNCHANGED <<job, ret, ret_value, awaited, final_segment_size, final_delay, total,
                   segment_idx, idx_in_chunk, spawned, outcome, progress,
                   segment_events, finished_events, error_events, delays, segment_tallies, emit_failed>>
    /\ UNCHANGED other_vars

\* One iteration of `while let Some(result) = download_tasks.next().await`
DrainReap(i) ==
    /\ pc = "drain"
    /\ Reap(i)
    /\ pc' = "drain"
    /\ UNCHANGED <<job, ret, ret_value, awaited, final_segment_size, final_delay, total,
                   segment_idx, idx_in_chunk, spawned, outcome, progress,
                   segment_events, finished_events, error_events, delays, segment_tallies, emit_failed>>
    /\ UNCHANGED other_vars

\* The drain loop left while one handle is still held
DrainDone_LeavesOne(handles) == Cardinality(handles) <= 1

\* download_tasks.next() yields None
DrainDone(handles) == handles = {}

(***************************************************************************)
(* Job orchestrator                                                        *)
(***************************************************************************)
\* The event carrying the loop's own zero-based counter
DownloadSegmentFinished_ZeroBased(idx) ==
    [segment |-> idx, message |-> "[ok] Segmento completado"]

\* The payload of "download-segment-finished": segment: segment_idx + 1
DownloadSegmentFinished(idx) ==
    [segment |-> idx + 1, message |-> "[ok] Segmento completado"]

\* The final event with its two totals exchanged
DownloadFinished_SwapsTotals(d, f) ==
    [message |-> "[ok] Descarga completada",
     total_downloaded |-> f, total_failed |-> d]

DownloadFinished(d, f) ==
    [message |-> "[ok] Descarga completada",
     total_downloaded |-> d, total_failed |-> f]

\* The delay test without the "- 1": a delay after the last segment too
NeedsDelay_AfterLastToo(idx, segments) == idx < segments

\* segment_idx < total_segments - 1
NeedsDelay(idx, segments) == idx < segments - 1

\* The segment event emitted from the second segment on only
EmitSegmentFinished_SkipsFirst(events, idx) ==
    IF idx > 0 THEN Append(events, DownloadSegmentFinished(idx)) ELSE events

\* The events of "download-segment-finished" after segment idx has ended
EmitSegmentFinished(events, idx) ==
    Append(events, DownloadSegmentFinished(idx))

\* The segment executor returns: totals, segment event, delay decision
SegmentFinished ==
    /\ pc = "drain"
    /\ DrainDone(download_tasks)
    /\ IF job.variant = "service"
       THEN /\ total_downloaded' = total_downloaded + downloaded
            /\ total_failed' = total_failed + failed
            /\ segment_tallies' = Append(segment_tallies, <<downloaded, failed>>)
       ELSE UNCHANGED <<total_downloaded, total_failed, segment_tallies>>
    /\ segment_events' = EmitSegmentFinished(segment_events, segment_idx)
    /\ \E emit_ok \in EmitResults : emit_failed' = (emit_failed \/ ~emit_ok)
    /\ pc' = IF NeedsDelay(segment_idx, total_segments) THEN "sleep" ELSE "next"
    /\ UNCHANGED <<job, ret, ret_value, awaited, final_segment_size, final_delay, total,
                   segment_idx, idx_in_chunk, downloaded, failed,
                   download_tasks, tasks, spawned, outcome, progress,
                   finished_events, error_events, delays>>
    /\ UNCHANGED other_vars

\* sleep(Duration::from_secs(final_delay)).await
Sleep ==
    /\ pc = "sleep"
    /\ delays' = Append(delays, final_delay)
    /\ pc' = "next"
    /\ UNCHANGED <<job, ret, ret_value, awaited, final_segment_size, final_delay, total,
                   total_downloaded, total_failed, segment_idx, idx_in_chunk,
                   downloaded, failed, download_tasks, tasks,
                   spawned, outcome, progress, segment_events, finished_events,
                   error_events, segment_tallies, emit_failed>>
    /\ UNCHANGED other_vars

\* The for loop takes its next chunk: a fresh window and fresh counters
NextSegment ==
    /\ pc = "next"
    /\ segment_idx + 1 < total_segments
    /\ segment_idx' = segment_idx + 1
    /\ idx_in_chunk' = 0
    /\ download_tasks' = {}
    /\ downloaded' = 0
    /\ failed' = 0
    /\ pc' = "spawn"
    /\ UNCHANGED <<job, ret, ret_value, awaited, final_segment_size, final_delay, total,
                   total_downloaded, total_failed, tasks, spawned,
                   outcome, progress, segment_events, finished_events, error_events,
                   delays, segment_tallies, emit_failed>>
    /\ UNCHANGED other_vars

\* The for loop is over: the final event and the return
JobFinished ==
    /\ pc = "next"
    /\ ~(segment_idx + 1 < total_segments)
    /\ finished_events' =
            Append(finished_events, DownloadFinished(total_downloaded, total_failed))
    /\ \E emit_ok \in EmitResults : emit_failed' = (emit_failed \/ ~emit_ok)
    /\ ret' = "Ok"
    /\ pc' = "done"
    /\ ret_value' = NoValue
    /\ UNCHANGED <<job, awaited, final_segment_size, final_delay, total,
                   total_downloaded, total_failed, segment_idx, idx_in_chunk,
                   downloaded, failed, download_tasks, tasks,
                   spawned, outcome, progress, segment_events, error_events, delays, segment_tallies>>
    /\ UNCHANGED other_vars

Positions == 1..(MaxUrls + 1)

Next ==
    \/ Validate
    \/ CheckInstalled
    \/ CheckStandalone
    \/ SingleValidate
    \/ SingleRun
    \/ SpawnTask
    \/ \E i \in Positions : TaskComplete(i)
    \/ \E i \in Positions : TaskPanic(i)
    \/ \E i \in Positions : WindowReap(i)
    \/ \E i \in Positions : DrainReap(i)
    \/ SegmentFinished
    \/ Sleep
    \/ NextSegment
    \/ JobFinished

Spec == Init /\ [][Next]_vars

(***************************************************************************)
(* Vocabulary of the properties                                            *)
(***************************************************************************)
\* The job has passed validation and the tool probe (total is assigned
\* right after the probe, and the list is not empty then).
PassedPreflight == total > 0

\* The job has returned after running its segments.
JobEnded == pc = "done" /\ PassedPreflight

\* Tasks spawned and not yet reaped.
InFlight == DOMAIN tasks

\* Tasks tallied so far as downloaded / as failed.  The service keeps the
\* running segment's tallies in its own counters until the segment ends.
InSegment == pc \in {"spawn", "window", "drain"}
TalliedDownloaded ==
    IF job.variant = "service" /\ InSegment
    THEN total_downloaded + downloaded ELSE total_downloaded
TalliedFailed ==
    IF job.variant = "service" /\ InSegment
    THEN total_failed + failed ELSE total_failed

\* Positions whose task has reached a terminal state and been reaped.
Reaped == (DOMAIN outcome) \ (DOMAIN tasks)

(***************************************************************************)
(* C1: when a job that passed pre-flight ends, the totals it reports, in   *)
(* its counters and in its download-finished event, add up to the number   *)
(* of identifiers submitted, whatever the tasks did.                       *)
(***************************************************************************)
C1_TotalsCoverEveryIdentifier ==
    JobEnded =>
        /\ total_downloaded + total_failed = Len(job.urls)
        /\ \A k \in 1..Len(finished_events) :
              finished_events[k].total_downloaded
                + finished_events[k].total_failed = Len(job.urls)

\* A four-identifier job has ended with every kind of outcome but one.
C1_Witness ==
    /\ JobEnded
    /\ Len(job.urls) = 4
    /\ Len(finished_events) = 1
    /\ {outcome[p] : p \in DOMAIN outcome} =
            {"success", "panic", "provider_error", "timeout"}

(***************************************************************************)
(* C2: at every moment at most MAX_CONCURRENT_DOWNLOADS tasks are spawned  *)
(* and not yet reaped, and the segment executor holds as many handles.     *)
(***************************************************************************)
C2_InFlightAtMostK ==
    /\ Cardinality(InFlight) <= MAX_CONCURRENT_DOWNLOADS
    /\ Cardinality(download_tasks) <= MAX_CONCURRENT_DOWNLOADS

\* The window is full while identifiers of the segment are still unspawned.
C2_Witness ==
    /\ pc = "window"
    /\ Cardinality(InFlight) = MAX_CONCURRENT_DOWNLOADS
    /\ idx_in_chunk < Len(chunk)
    /\ final_segment_size = MAX_SEGMENT_SIZE

(***************************************************************************)
(* C3: a task is tallied as downloaded exactly when its process exited     *)
(* successfully with no provider-error marker; a task whose process exits  *)
(* non-zero, cannot be spawned or times out is tallied as failed.          *)
(***************************************************************************)
C3_TallyFollowsTerminalState ==
    /\ TalliedDownloaded =
            Cardinality({p \in Reaped : outcome[p] = "success"})
    /\ TalliedFailed >=
            Cardinality({p \in Reaped :
                outcome[p] \in {"exit_failure", "io_error", "timeout"}})

(***************************************************************************)
(* C4: the step that reaps a task whose process exited successfully with   *)
(* a provider-error marker in stdout adds one to the failed tally and      *)
(* leaves the downloaded tally alone.                                      *)
(***************************************************************************)
C4_ProviderErrorTalliedFailed ==
    [][\A i \in Positions :
        ( /\ pc \in {"window", "drain"}
          /\ i \in download_tasks
          /\ i \notin download_tasks'
          /\ i \in DOMAIN outcome
          /\ outcome[i] = "provider_error" )
        => /\ TalliedFailed' = TalliedFailed + 1
           /\ TalliedDownloaded' = TalliedDownloaded]_vars

\* The service has reaped a task that ended in a provider error.
C4_Witness ==
    /\ job.variant = "service"
    /\ \E p \in Reaped : outcome[p] = "provider_error"
    /\ TalliedFailed >= 1

(***************************************************************************)
(* C5: every task that ran to its end without crashing has had exactly one *)
(* download-progress emit attempted, carrying its own position, whatever   *)
(* its classification; so an ended job without crashes has attempted one   *)
(* per identifier.                                                         *)
(***************************************************************************)
C5_OneProgressEventPerTask ==
    /\ \A i \in DOMAIN outcome :
          outcome[i] # "panic" =>
              /\ Len(ProgressOf(i)) = 1
              /\ ProgressOf(i)[1].index = i
    /\ \A i \in DOMAIN progress : Len(progress[i]) <= 1
    /\ ( JobEnded /\ \A i \in DOMAIN outcome : outcome[i] # "panic" )
          => \A p \in 1..Len(job.urls) : Len(ProgressOf(p)) = 1

(***************************************************************************)
(* C6: a task that ended in a provider error has a download-progress emit  *)
(* attempted for it, with a status that is none of the statuses of         *)
(* success, process failure, spawn failure and timeout.                    *)
(***************************************************************************)
C6_ProviderErrorHasOwnStatus ==
    \A i \in DOMAIN outcome :
        outcome[i] = "provider_error" =>
            /\ Len(ProgressOf(i)) >= 1
            /\ \A k \in 1..Len(ProgressOf(i)) :
                  ProgressOf(i)[k].status \notin
                      {StatusDownloaded, StatusExitFailure,
                       StatusIoError, StatusTimeout}

(***************************************************************************)
(* C7: a job that passed pre-flight and whose list splits into N segments  *)
(* emits N download-segment-finished events and one download-finished      *)
(* event by the time it ends, and never more on the way.                   *)
(***************************************************************************)
\* ceil(n / s), said without the division the code's chunking is modelled by
ExpectedSegments(n, s) ==
    CHOOSE k \in 0..n : (k - 1) * s < n /\ n <= k * s

JobSegments ==
    ExpectedSegments(Len(job.urls), ClampSegmentSize(job.segment_size))

C7_SegmentAndJobEvents ==
    /\ Len(segment_events) <= JobSegments
    /\ Len(finished_events) <= 1
    /\ PassedPreflight \/ (Len(segment_events) = 0 /\ Len(finished_events) = 0)
    /\ JobEnded => /\ Len(segment_events) = JobSegments
                   /\ Len(finished_events) = 1

\* A three-segment job has ended with a failure among its tasks.
C7_Witness ==
    /\ JobEnded
    /\ JobSegments = 3
    /\ Len(segment_events) = 3
    /\ total_failed >= 1

(***************************************************************************)
(* C8: the pacing delay is taken once after each segment but the last:     *)
(* while segment k (from 0) runs, k delays and k segment events lie        *)
(* behind; a delay starts only after its segment's event and only when     *)
(* another segment follows; an ended job of N segments has slept N - 1     *)
(* times.                                                                  *)
(***************************************************************************)
C8_DelayBetweenSegmentsOnly ==
    /\ InSegment => /\ Len(delays) = segment_idx
                    /\ Len(segment_events) = segment_idx
    /\ pc = "sleep" => /\ Len(segment_events) = segment_idx + 1
                       /\ Len(delays) = segment_idx
                       /\ segment_idx + 1 < JobSegments
    /\ JobEnded => Len(delays) = JobSegments - 1

\* A three-segment job has ended after its two delays.
C8_Witness ==
    /\ JobEnded
    /\ JobSegments = 3
    /\ Len(delays) = 2

(***************************************************************************)
(* C9: every task in flight belongs to the segment being run; between      *)
(* segments and after the job nothing is in flight; while a segment runs,  *)
(* every position of the earlier segments has been reaped, and every       *)
(* reaped task is in the tallies.                                          *)
(***************************************************************************)
SegmentOf(p) == (p - 1) \div final_segment_size

C9_SegmentsSequential ==
    PassedPreflight =>
        /\ \A i \in InFlight : SegmentOf(i) = segment_idx
        /\ ~InSegment => InFlight = {}
        /\ \A p \in DOMAIN outcome \cup InFlight :
              SegmentOf(p) < segment_idx => p \in Reaped
        /\ InSegment =>
              \A p \in 1..(segment_idx * final_segment_size) : p \in Reaped
        /\ TalliedDownloaded + TalliedFailed = Cardinality(Reaped)

\* A task of a later segment is in flight after a segment of several tasks.
C9_Witness ==
    /\ InSegment
    /\ segment_idx >= 1
    /\ final_segment_size >= 2
    /\ InFlight # {}

(***************************************************************************)
(* C10: a job that passed pre-flight returns success whatever its tasks    *)
(* did, and every task that did not succeed is counted in total_failed.    *)
(***************************************************************************)
C10_FailuresOnlyInTotalFailed ==
    JobEnded =>
        /\ ret = "Ok"
        /\ total_failed =
              Cardinality({p \in DOMAIN outcome : outcome[p] # "success"})

\* The part of C10 about the return value alone.
JobAlwaysReturnsOk == JobEnded => ret = "Ok"

(***************************************************************************)
(* Vocabulary of the pre-flight claims                                     *)
(***************************************************************************)
BatchJob == job.command = BatchCommand

\* No external process has been awaited, no task spawned.
NothingStarted ==
    /\ awaited.kind = "none"
    /\ spawned = <<>>
    /\ tasks = <<>>
    /\ outcome = <<>>

\* No progress, segment or job event has been attempted, no delay taken.
NoJobEvents ==
    /\ progress = <<>>
    /\ segment_events = <<>>
    /\ finished_events = <<>>
    /\ delays = <<>>

EmptyListErrors == {"Failed", "Lista de URLs vacia"}
BatchTooLargeErrors == {"TooManySongs", "Demasiadas canciones. Maximo: 100"}
InvalidFormatErrors ==
    {"InvalidFormat", "Formato invalido. Usa: mp3, flac, ogg, m4a, opus"}

\* Outcomes after which a task's result is an error or a JoinError.
ErrOutcomes == {"provider_error", "panic"}

(***************************************************************************)
(* C11: what a job that passed pre-flight tallies, spawns, sleeps and      *)
(* returns is fixed by its arguments and by what its tasks' processes did: *)
(* the tallies are the counts of the reaped outcomes, the tasks spawned    *)
(* are the positions in order, the delays are the clamped delay between    *)
(* segments, the return value is success.  Nothing in it depends on what   *)
(* the emits returned, so two runs that differ only in their emits'        *)
(* results agree on all of it.                                             *)
(***************************************************************************)
C11_EmitFailuresChangeNothing ==
    (BatchJob /\ PassedPreflight) =>
        /\ TalliedFailed =
              Cardinality({p \in Reaped : outcome[p] \in ErrOutcomes})
        /\ TalliedDownloaded =
              Cardinality({p \in Reaped : outcome[p] \notin ErrOutcomes})
        /\ spawned = [k \in 1..Len(spawned) |-> k]
        /\ \A k \in 1..Len(delays) : delays[k] = ClampDelay(job.delay)
        /\ JobEnded => /\ Len(spawned) = Len(job.urls)
                       /\ Len(delays) = JobSegments - 1
                       /\ ret = "Ok"

\* A job whose sink failed an emit has ended with both tallies above zero.
C11_Witness ==
    /\ JobEnded
    /\ job.sink = "flaky"
    /\ emit_failed
    /\ total_downloaded >= 1
    /\ total_failed >= 1
    /\ Len(delays) >= 1

(***************************************************************************)
(* C12: a job with an empty list is rejected by the first validation: the  *)
(* probe never runs, no task is spawned, no progress, segment or job event *)
(* is attempted, and the job returns the empty-list error.                 *)
(***************************************************************************)
C12_EmptyListRejectedFirst ==
    (BatchJob /\ Len(job.urls) = 0) =>
        /\ pc \in {"validate", "done"}
        /\ NothingStarted
        /\ NoJobEvents
        /\ pc = "done" => ret \in EmptyListErrors

\* An empty list that also breaks the format and the path rules was rejected.
C12_Witness ==
    /\ BatchJob
    /\ Len(job.urls) = 0
    /\ job.format = "wav"
    /\ job.output_dir = TraversalDir
    /\ pc = "done"
    /\ ret = "Failed"

(***************************************************************************)
(* C13: a job with more than MAX_SONGS_PER_BATCH identifiers is rejected   *)
(* with the batch-too-large error and leaves every other part of the state *)
(* as it was; a job with exactly MAX_SONGS_PER_BATCH identifiers is never  *)
(* rejected with that error.                                               *)
(***************************************************************************)
C13_BatchCeiling ==
    BatchJob =>
        /\ Len(job.urls) > MAX_SONGS_PER_BATCH =>
              /\ pc \in {"validate", "done"}
              /\ NothingStarted
              /\ NoJobEvents
              /\ error_events = 0
              /\ total = 0 /\ total_downloaded = 0 /\ total_failed = 0
              /\ pc = "done" => ret \in BatchTooLargeErrors
        /\ Len(job.urls) = MAX_SONGS_PER_BATCH => ret \notin BatchTooLargeErrors

\* A list one above the ceiling, with a bad format too, was rejected.
C13_Witness ==
    /\ BatchJob
    /\ job.variant = "service"
    /\ Len(job.urls) = MAX_SONGS_PER_BATCH + 1
    /\ job.format = "wav"
    /\ pc = "done"
    /\ ret = "TooManySongs"

(***************************************************************************)
(* C14, as stated: a job whose format is not an allowed one is rejected    *)
(* with the invalid-format error, which names the allowed formats, before  *)
(* the probe or any task runs.                                             *)
(***************************************************************************)
C14_InvalidFormatRejected ==
    (BatchJob /\ job.format \notin valid_formats) =>
        /\ pc \in {"validate", "done"}
        /\ NothingStarted
        /\ NoJobEvents
        /\ pc = "done" => /\ ret \in InvalidFormatErrors
                          /\ ret_value.names = valid_formats

(***************************************************************************)
(* C14, amended: a job whose list is not empty and within the ceiling and  *)
(* whose format is not an allowed one is rejected with the invalid-format  *)
(* error, which names the allowed formats, before the probe or any task    *)
(* runs.                                                                   *)
(***************************************************************************)
C14_InvalidFormatRejectedWhenSized ==
    ( /\ BatchJob
      /\ job.format \notin valid_formats
      /\ Len(job.urls) \in 1..MAX_SONGS_PER_BATCH ) =>
        /\ pc \in {"validate", "done"}
        /\ NothingStarted
        /\ NoJobEvents
        /\ pc = "done" => /\ ret \in InvalidFormatErrors
                          /\ ret_value.names = valid_formats

\* A list with a bad url and a bad path was rejected for its format.
C14_Witness ==
    /\ BatchJob
    /\ job.format = "wav"
    /\ job.urls = <<GoodUrl, BadUrl>>
    /\ job.output_dir = OrphanDir
    /\ pc = "done"
    /\ ret \in InvalidFormatErrors
    /\ ret_value.names = valid_formats

(***************************************************************************)
(* C15: when the probe of a job fails, the job has returned the probe's    *)
(* error (tool not installed; a timeout of CHECK_TIMEOUT_SECS seconds when *)
(* the service's wait elapsed) with no task spawned and no progress,       *)
(* segment or job event attempted.                                         *)
(***************************************************************************)
ProbeFailed ==
    /\ BatchJob
    /\ awaited.kind # "none"
    /\ ~(awaited.kind = "Output" /\ awaited.success)

C15_ProbeFailureEndsJob ==
    ProbeFailed =>
        /\ pc = "done"
        /\ spawned = <<>> /\ tasks = <<>> /\ outcome = <<>>
        /\ NoJobEvents
        /\ total = 0
        /\ ret = IF job.variant = "legacy"
                 THEN "spotdl no esta instalado o no responde"
                 ELSE IF awaited.kind = "Elapsed" THEN "Timeout"
                 ELSE "SpotdlNotInstalled"
        /\ (job.variant = "service" /\ awaited.kind = "Elapsed")
              => ret_value.secs = CHECK_TIMEOUT_SECS

\* The probe of a service job of several identifiers ran out of time.
C15_Witness ==
    /\ ProbeFailed
    /\ job.variant = "service"
    /\ Len(job.urls) >= 2
    /\ awaited.kind = "Elapsed"
    /\ ret = "Timeout"

(***************************************************************************)
(* Vocabulary of the probe and single-track claims                         *)
(***************************************************************************)
ProbeJob == job.command = ProbeCommand
SingleJob == job.command = SingleCommand

\* trimmed is text without the whitespace at its two ends: a window of text
\* that neither starts nor ends with whitespace, outside which text holds
\* whitespace only.
IsTrimOf(trimmed, text) ==
    /\ \E i \in 1..(Len(text) + 1) :
          /\ i + Len(trimmed) - 1 <= Len(text)
          /\ \A k \in 1..Len(trimmed) : trimmed[k] = text[i + k - 1]
          /\ \A k \in 1..Len(text) :
                (k < i \/ k > i + Len(trimmed) - 1) => text[k] \in Whitespace
    /\ Len(trimmed) > 0 => /\ trimmed[1] \notin Whitespace
                           /\ trimmed[Len(trimmed)] \notin Whitespace

\* The batch service has just had its probe answered.
JustProbed ==
    /\ BatchJob
    /\ job.variant = "service"
    /\ awaited.kind # "none"
    /\ \/ pc = "done" /\ ~PassedPreflight
       \/ pc = "spawn" /\ spawned = <<>>

\* The process awaited by the single-track command exited with status 0
\* and printed no provider-error marker.
Succeeded(result) ==
    /\ result.kind = "Output"
    /\ result.success
    /\ result.stdout \cap Markers = {}

(***************************************************************************)
(* C16: the probe command returns the trimmed version text when the        *)
(* tool's process exits with status 0, the tool-not-installed error when   *)
(* it exits otherwise or cannot be spawned, and the timeout error carrying *)
(* CHECK_TIMEOUT_SECS when the wait elapses; called on its own or by the   *)
(* service's job, the probe attempts no event and spawns no task.          *)
(***************************************************************************)
C16_ProbeMapping ==
    /\ ProbeJob =>
          /\ NoJobEvents /\ error_events = 0
          /\ spawned = <<>> /\ tasks = <<>>
          /\ pc = "done" =>
                /\ (awaited.kind = "Output" /\ awaited.success) =>
                      /\ ret = "Ok"
                      /\ IsTrimOf(ret_value.text, awaited.stdout)
                /\ (awaited.kind = "Output" /\ ~awaited.success) =>
                      ret = "SpotdlNotInstalled"
                /\ awaited.kind = "IoError" => ret = "SpotdlNotInstalled"
                /\ awaited.kind = "Elapsed" =>
                      /\ ret = "Timeout"
                      /\ ret_value.secs = CHECK_TIMEOUT_SECS
    /\ JustProbed =>
          /\ NoJobEvents /\ error_events = 0
          /\ spawned = <<>> /\ tasks = <<>>

\* The probe command returned a version printed between whitespace.
C16_Witness ==
    /\ ProbeJob
    /\ pc = "done"
    /\ awaited = ProbeOutput(TRUE, <<" ", "4", "\n">>)
    /\ ret = "Ok"
    /\ ret_value.text = <<"4">>

(***************************************************************************)
(* C17: the single-track command returns its success text exactly when     *)
(* its process exited with status 0 and no provider-error marker; after    *)
(* every other end of the process, and after a failed validation, it       *)
(* returns an error.                                                       *)
(***************************************************************************)
C17_SingleSuccessIffSucceeded ==
    SingleJob =>
        /\ awaited.kind # "none" =>
              /\ pc = "done"
              /\ ret # "none"
              /\ ret = "Ok" <=> Succeeded(awaited)
              /\ ret = "Ok" => ret_value.status = StatusSingleSuccess
        /\ (pc = "done" /\ awaited.kind = "none") => ret \notin {"Ok", "none"}

\* The command returned success although the emit of its event failed.
C17_Witness ==
    /\ SingleJob
    /\ pc = "done"
    /\ awaited = Output(TRUE, {})
    /\ emit_failed
    /\ ret = "Ok"

(***************************************************************************)
(* C18: a process that exits with status 0 and prints no provider-error    *)
(* marker is always classified as downloaded, and a wait that elapses is   *)
(* always classified as timed out, whatever the process would have         *)
(* produced: the status of the progress event says so, in the single-track *)
(* command and in the tasks of both batch implementations.                 *)
(***************************************************************************)
C18_SuccessAndTimeoutClassified ==
    /\ (SingleJob /\ awaited.kind # "none") =>
          /\ Len(ProgressOf(1)) = 1
          /\ Succeeded(awaited) => ProgressOf(1)[1].status = StatusDownloaded
          /\ awaited.kind = "Elapsed" =>
                /\ ProgressOf(1)[1].status = StatusTimeout
                /\ ret_value.status = StatusTimeout
    /\ BatchJob =>
          \A i \in DOMAIN outcome :
              /\ outcome[i] = "success" =>
                    /\ Len(ProgressOf(i)) = 1
                    /\ ProgressOf(i)[1].status = StatusDownloaded
              /\ outcome[i] = "timeout" =>
                    /\ Len(ProgressOf(i)) = 1
                    /\ ProgressOf(i)[1].status = StatusTimeout

\* The timer fired on a process that would have exited with status 0.
C18_Witness ==
    /\ SingleJob
    /\ pc = "done"
    /\ awaited = ElapsedAfter(TRUE, {})
    /\ ProgressOf(1)[1].status = StatusTimeout

(***************************************************************************)
(* C19: when the wait of the single-track command elapses, the command     *)
(* returns the timeout error carrying SPOTDL_TIMEOUT_SECS, not the error   *)
(* it returns for a process that failed.                                   *)
(***************************************************************************)
C19_SingleTimeoutIsTimeoutError ==
    (SingleJob /\ awaited.kind = "Elapsed") =>
        /\ ret = "Timeout"
        /\ ret_value.secs = SPOTDL_TIMEOUT_SECS
        /\ ret # "Failed"

\* The wait of the single-track command elapsed and the command returned.
C19_Witness ==
    /\ SingleJob
    /\ pc = "done"
    /\ awaited.kind = "Elapsed"
    /\ ret = "Failed"
    /\ ret_value.status = StatusTimeout

(***************************************************************************)
(* C20: while a segment runs, the results tallied for it plus the handles  *)
(* held equal the tasks spawned for it so far; when the segment executor   *)
(* returns, the two counts it returns add up to the segment's length.      *)
(***************************************************************************)
C20_SegmentAccounting ==
    (BatchJob /\ PassedPreflight) =>
        /\ (InSegment /\ job.variant = "service") =>
              downloaded + failed + Cardinality(download_tasks) = idx_in_chunk
        /\ (InSegment /\ job.variant = "legacy") =>
              total_downloaded + total_failed + Cardinality(download_tasks)
                  = Len(spawned)
        /\ idx_in_chunk <= Len(chunk)
        /\ ( job.variant = "service"
             /\ \/ pc = "drain" /\ download_tasks = {}
                \/ pc \in {"sleep", "next", "done"} ) =>
              downloaded + failed = Len(chunk)
        /\ ( job.variant = "legacy"
             /\ \/ pc = "drain" /\ download_tasks = {}
                \/ pc \in {"sleep", "next", "done"} ) =>
              /\ idx_in_chunk = Len(chunk)
              /\ total_downloaded + total_failed = Len(spawned)

\* A segment longer than the window is about to return with both counts
\* above zero.
C20_Witness ==
    /\ BatchJob
    /\ job.variant = "service"
    /\ pc = "drain"
    /\ download_tasks = {}
    /\ Len(chunk) > MAX_CONCURRENT_DOWNLOADS
    /\ downloaded >= 1
    /\ failed >= 1

(***************************************************************************)
(* Vocabulary of the segmentation claims                                   *)
(***************************************************************************)
\* The effective segment size and delay, said without the code's clamps.
EffectiveSegmentSize ==
    IF job.segment_size < 1 THEN 1
    ELSE IF job.segment_size > 50 THEN 50
    ELSE job.segment_size

EffectiveDelay ==
    IF job.delay < 2 THEN 2
    ELSE IF job.delay > 10 THEN 10
    ELSE job.delay

\* The segments the job works through.
JobChunks == Chunks(job.urls, final_segment_size)

\* The position in the list of element k of segment c, when every segment
\* before c has s elements.
PositionIn(c, k, s) == (c - 1) * s + k

(***************************************************************************)
(* C21: the segments of a job past pre-flight are ceil(n / s) in number,   *)
(* every one but the last holds s identifiers and the last between 1 and   *)
(* s, and element k of segment c is the identifier at position             *)
(* (c - 1) * s + k of the list: ordered, contiguous, without overlap, and  *)
(* covering the list exactly.                                              *)
(***************************************************************************)
C21_SegmentsPartitionTheList ==
    (BatchJob /\ PassedPreflight) =>
        LET s == final_segment_size
            n == Len(job.urls)
        IN /\ Len(JobChunks) = ExpectedSegments(n, s)
           /\ \A c \in 1..(Len(JobChunks) - 1) : Len(JobChunks[c]) = s
           /\ Len(JobChunks[Len(JobChunks)]) \in 1..s
           /\ \A c \in 1..Len(JobChunks) :
                 \A k \in 1..Len(JobChunks[c]) :
                    /\ PositionIn(c, k, s) \in 1..n
                    /\ JobChunks[c][k] = job.urls[PositionIn(c, k, s)]
           /\ \A p \in 1..n :
                 \E c \in 1..Len(JobChunks) :
                    \E k \in 1..Len(JobChunks[c]) : PositionIn(c, k, s) = p
           /\ segment_idx < Len(JobChunks)
           /\ [c \in 1..Len(Chunks(UrlList(7, GoodUrl), 3)) |->
                    Len(Chunks(UrlList(7, GoodUrl), 3)[c])] = <<3, 3, 1>>

\* The short last segment of a list one longer than the segment size runs.
C21_Witness ==
    /\ BatchJob
    /\ PassedPreflight
    /\ Len(job.urls) = final_segment_size + 1
    /\ final_segment_size >= 2
    /\ segment_idx = 1
    /\ pc = "drain"
    /\ Len(chunk) = 1

(***************************************************************************)
(* C22: whatever segment size the caller gives, 0 and values above 50      *)
(* included, the size the job uses is that value brought into 1..50, every *)
(* segment holds between 1 and 50 identifiers, and the job runs to its     *)
(* final event.                                                            *)
(***************************************************************************)
C22_SegmentSizeClamped ==
    (BatchJob /\ PassedPreflight) =>
        /\ final_segment_size = EffectiveSegmentSize
        /\ final_segment_size \in 1..50
        /\ \A c \in 1..Len(JobChunks) : Len(JobChunks[c]) \in 1..50
        /\ Len(chunk) >= 1
        /\ pc = "done" => Len(segment_events) = ExpectedSegments(Len(job.urls), EffectiveSegmentSize)

\* A job given segment size 0 has ended after one segment per identifier.
C22_Witness ==
    /\ JobEnded
    /\ job.segment_size = 0
    /\ final_segment_size = 1
    /\ Len(segment_events) = Len(job.urls)
    /\ Len(job.urls) >= 3

(***************************************************************************)
(* C23: every pause between segments lasts the caller's delay brought into *)
(* MIN_DELAY_SECS..MAX_DELAY_SECS = 2..10, the same for all pauses of the  *)
(* job.                                                                    *)
(***************************************************************************)
C23_DelayClamped ==
    BatchJob =>
        /\ PassedPreflight => final_delay = EffectiveDelay
        /\ \A k \in 1..Len(delays) :
              /\ delays[k] = EffectiveDelay
              /\ delays[k] \in MIN_DELAY_SECS..MAX_DELAY_SECS
              /\ delays[k] = delays[1]
        /\ MIN_DELAY_SECS = 2 /\ MAX_DELAY_SECS = 10

\* A job given a delay of 30 has ended after a pause of 10.
C23_Witness ==
    /\ JobEnded
    /\ job.delay = 30
    /\ delays = <<10>>

(***************************************************************************)
(* C24: the validations of a batch job are tried in the order non-empty    *)
(* list, ceiling, format, urls, output directory, and the job returns the  *)
(* error of the first rule its arguments break; it goes on to the probe    *)
(* exactly when they break none.                                           *)
(***************************************************************************)
\* The rules a job's arguments break, by number.
ViolatedRules(j) ==
    {r \in 1..5 :
        \/ r = 1 /\ Len(j.urls) = 0
        \/ r = 2 /\ Len(j.urls) > 100
        \/ r = 3 /\ j.format \notin {"mp3", "flac", "ogg", "m4a", "opus"}
        \/ r = 4 /\ \E i \in 1..Len(j.urls) : j.urls[i] # GoodUrl
        \/ r = 5 /\ j.output_dir.some
                 /\ (j.output_dir.dotdot \/ ~j.output_dir.parent_exists)}

LowestViolated(j) ==
    CHOOSE r \in ViolatedRules(j) : \A q \in ViolatedRules(j) : r <= q

\* The errors each implementation returns for a broken rule.
RuleErrors(variant, r) ==
    IF variant = "service"
    THEN CASE r = 1 -> {"Failed"}
           [] r = 2 -> {"TooManySongs"}
           [] r = 3 -> {"InvalidFormat"}
           [] r = 4 -> {"InvalidUrl"}
           [] r = 5 -> {"PathTraversal", "NotFound"}
    ELSE CASE r = 1 -> {"Lista de URLs vacia"}
           [] r = 2 -> {"Demasiadas canciones. Maximo: 100"}
           [] r = 3 -> {"Formato invalido. Usa: mp3, flac, ogg, m4a, opus"}
           [] r = 4 -> {"URL invalida: debe ser una URL de Spotify track"}
           [] r = 5 -> {"Ruta invalida: contiene '..'",
                        "El directorio no existe"}

C24_FirstBrokenRuleWins ==
    (BatchJob /\ pc # "validate") =>
        IF ViolatedRules(job) = {}
        THEN pc # "done" \/ awaited.kind # "none"
        ELSE /\ pc = "done"
             /\ awaited.kind = "none"
             /\ ret \in RuleErrors(job.variant, LowestViolated(job))

\* A list with a malformed url and a path with ".." was rejected for the url.
C24_Witness ==
    /\ BatchJob
    /\ job.variant = "service"
    /\ job.urls = <<GoodUrl, BadUrl>>
    /\ job.format = "mp3"
    /\ job.output_dir = TraversalDir
    /\ pc = "done"
    /\ ret = "InvalidUrl"

(***************************************************************************)
(* C25: the window slides.  When the spawn loop waits, the window holds    *)
(* MAX_CONCURRENT_DOWNLOADS handles and the wait can end with any one of   *)
(* them whose task has finished, whatever its place in the spawn order;    *)
(* the loop then spawns again with the other handles still held, their     *)
(* tasks running or not.                                                   *)
(***************************************************************************)
C25_WindowSlides ==
    (BatchJob /\ PassedPreflight) =>
        /\ pc = "window" =>
              /\ Cardinality(download_tasks) = MAX_CONCURRENT_DOWNLOADS
              /\ \A i \in download_tasks :
                    tasks[i].state = "finished" => ENABLED WindowReap(i)
        /\ (pc = "spawn" /\ idx_in_chunk >= MAX_CONCURRENT_DOWNLOADS) =>
              /\ Cardinality(download_tasks) = MAX_CONCURRENT_DOWNLOADS - 1
              /\ download_tasks \subseteq DOMAIN tasks

\* The fourth task runs beside the first two, still running: the wait ended
\* with the third, the last one spawned.
C25_Witness ==
    /\ BatchJob
    /\ InSegment
    /\ DOMAIN tasks = {1, 2, 4}
    /\ tasks[1].state = "running"
    /\ tasks[2].state = "running"
    /\ tasks[4].state = "running"
    /\ 3 \in Reaped

(***************************************************************************)
(* C26: under fair scheduling, and with every task's process ending or its *)
(* timer firing, a batch job past pre-flight reaches its final event and   *)
(* its return, whatever its tasks do and in whatever order they end.       *)
(***************************************************************************)
\* The steps of the job's own future, which the runtime keeps polling
OrchestratorStep ==
    \/ SpawnTask
    \/ \E i \in Positions : WindowReap(i)
    \/ \E i \in Positions : DrainReap(i)
    \/ SegmentFinished
    \/ Sleep
    \/ NextSegment
    \/ JobFinished

\* A spawned task is polled until its process ends, its timer fires or it
\* panics.
TaskEnds(i) == TaskComplete(i) \/ TaskPanic(i)

\* The batch jobs the liveness check runs: every valid job of up to one
\* identifier more than the window holds (the shortest list on which the
\* window slides), the service's longer jobs cut into segments of the
\* window's size, and the jobs that break validation rules.
LiveJobs ==
    {j \in ValidJobs :
        \/ Len(j.urls) <= MAX_CONCURRENT_DOWNLOADS + 1
        \/ j.variant = "service" /\ j.segment_size <= MAX_SEGMENT_SIZE}
    \cup RuleJobs

LiveInit ==
    /\ Init
    /\ job \in LiveJobs

LiveNext ==
    \/ Validate
    \/ CheckInstalled
    \/ \E i \in Positions : TaskEnds(i)
    \/ OrchestratorStep

LiveSpec ==
    /\ LiveInit
    /\ [][LiveNext]_vars
    /\ WF_vars(Validate \/ CheckInstalled)
    /\ WF_vars(OrchestratorStep)
    /\ \A i \in Positions : WF_vars(TaskEnds(i))

C26_JobEventuallyFinishes ==
    (BatchJob /\ PassedPreflight) ~>
        (pc = "done" /\ Len(finished_events) = 1 /\ ret = "Ok")

\* A job whose tasks all ended badly, one by panicking, has returned.
C26_Witness ==
    /\ JobEnded
    /\ Len(finished_events) = 1
    /\ Len(job.urls) > MAX_CONCURRENT_DOWNLOADS
    /\ total_downloaded = 0
    /\ \E p \in DOMAIN outcome : outcome[p] = "panic"

(***************************************************************************)
(* Vocabulary of the spawn and tally claims                                *)
(***************************************************************************)
SpawnedSet == {spawned[k] : k \in 1..Len(spawned)}

RECURSIVE SumOf(_, _)
\* The sum of component c of the pairs of a sequence.
SumOf(pairs, c) ==
    IF pairs = <<>> THEN 0
    ELSE pairs[1][c] + SumOf(Tail(pairs), c)

(***************************************************************************)
(* C27: nothing is retried.  No position is spawned twice, a position      *)
(* whose task has ended is never running again, never more tasks are       *)
(* spawned than the list has identifiers, and an ended job has spawned     *)
(* exactly one task per identifier.                                        *)
(***************************************************************************)
C27_NothingRetried ==
    BatchJob =>
        /\ \A a, b \in 1..Len(spawned) : spawned[a] = spawned[b] => a = b
        /\ Len(spawned) <= Len(job.urls)
        /\ DOMAIN tasks \cup DOMAIN outcome \subseteq SpawnedSet
        /\ \A p \in DOMAIN tasks :
              p \in DOMAIN outcome => tasks[p].state = "finished"
        /\ Cardinality(InFlight) + Cardinality(Reaped) = Len(spawned)
        /\ JobEnded => /\ Len(spawned) = Len(job.urls)
                       /\ SpawnedSet = 1..Len(job.urls)

\* A job of three segments whose every task failed has ended.
C27_Witness ==
    /\ JobEnded
    /\ Len(job.urls) = 3
    /\ JobSegments = 3
    /\ total_failed = 3
    /\ spawned = <<1, 2, 3>>

(***************************************************************************)
(* C28: the task of position p carries index p, the length of the list as  *)
(* total and the identifier at p, under every segment size; its progress   *)
(* event carries the same; the indices of an ended job's tasks are         *)
(* distinct and are 1..n.                                                  *)
(***************************************************************************)
C28_GlobalIndexIsPosition ==
    BatchJob =>
        /\ \A p \in DOMAIN tasks :
              /\ p \in 1..Len(job.urls)
              /\ tasks[p].index = p
              /\ tasks[p].total = Len(job.urls)
              /\ tasks[p].url = job.urls[p]
        /\ \A p \in DOMAIN progress :
              \A k \in 1..Len(progress[p]) :
                 /\ progress[p][k].index = p
                 /\ progress[p][k].total = Len(job.urls)
        /\ \A k \in 1..Len(spawned) : spawned[k] = k
        /\ JobEnded => SpawnedSet = 1..Len(job.urls)

\* The first task of the second segment of two runs with index 3.
C28_Witness ==
    /\ BatchJob
    /\ InSegment
    /\ segment_idx = 1
    /\ final_segment_size = 2
    /\ 3 \in DOMAIN tasks
    /\ tasks[3].index = 3
    /\ tasks[3].total = 3

(***************************************************************************)
(* C29: once the download-finished event has been attempted the job is     *)
(* over: the event of the last segment lies behind, no task is left, and   *)
(* no step that could emit anything remains.  The event's totals are the   *)
(* sums of the counts the segment executor returned for the segments.      *)
(***************************************************************************)
C29_JobFinishedIsLast ==
    (BatchJob /\ Len(finished_events) >= 1) =>
        /\ Len(finished_events) = 1
        /\ Len(segment_events) = JobSegments
        /\ segment_events[JobSegments].segment = JobSegments
        /\ tasks = <<>> /\ download_tasks = {}
        /\ DOMAIN outcome = Reaped
        /\ ~ENABLED Next
        /\ job.variant = "service" =>
              /\ Len(segment_tallies) = JobSegments
              /\ finished_events[1].total_downloaded = SumOf(segment_tallies, 1)
              /\ finished_events[1].total_failed = SumOf(segment_tallies, 2)

\* A service job of two segments has ended with different counts in each.
C29_Witness ==
    /\ JobEnded
    /\ job.variant = "service"
    /\ segment_tallies = << <<1, 1>>, <<0, 1>> >>
    /\ finished_events[1].total_downloaded = 1
    /\ finished_events[1].total_failed = 2

(***************************************************************************)
(* C30: a task that panics adds exactly one to the failed tally when it is *)
(* reaped and nothing to the downloaded tally, and the job goes on: when   *)
(* it ends, every position has been spawned and reaped, every segment has  *)
(* had its event, and the job has returned success.                        *)
(***************************************************************************)
C30_PanicIsOneFailure ==
    (BatchJob /\ PassedPreflight) =>
        /\ TalliedFailed =
              Cardinality({p \in Reaped : outcome[p] = "panic"})
              + Cardinality({p \in Reaped : outcome[p] = "provider_error"})
        /\ TalliedDownloaded =
              Cardinality({p \in Reaped : outcome[p] \notin ErrOutcomes})
        /\ pc = "done" =>
              /\ Reaped = 1..Len(job.urls)
              /\ Len(segment_events) = JobSegments
              /\ Len(finished_events) = 1
              /\ ret = "Ok"

\* The first task of a job of several segments panicked, alone; the job
\* has ended.
C30_Witness ==
    /\ JobEnded
    /\ Len(job.urls) >= 3
    /\ JobSegments >= 2
    /\ outcome[1] = "panic"
    /\ total_failed = 1
    /\ total_downloaded = Len(job.urls) - 1

(***************************************************************************)
(* C31: the download-segment-finished event of a segment carries that      *)
(* segment's zero-based index (the first event carries 0), and the events  *)
(* come in increasing segment order.                                       *)
(***************************************************************************)
SegmentEventsInOrder ==
    /\ \A k, l \in 1..Len(segment_events) :
          k < l => segment_events[k].segment < segment_events[l].segment
    /\ (BatchJob /\ PassedPreflight /\ pc \in {"sleep", "next"}) =>
          Len(segment_events) = segment_idx + 1

C31_SegmentEventCarriesIndex ==
    /\ \A k \in 1..Len(segment_events) : segment_events[k].segment = k - 1
    /\ SegmentEventsInOrder

(***************************************************************************)
(* C31, amended: the event of the segment with zero-based index i carries  *)
(* the segment number i + 1 (the first event carries 1), and the events    *)
(* come in increasing segment order.                                       *)
(***************************************************************************)
C31_SegmentEventCarriesNumber ==
    /\ \A k \in 1..Len(segment_events) :
          segment_events[k].segment = (k - 1) + 1
    /\ (BatchJob /\ PassedPreflight /\ pc \in {"sleep", "next"}) =>
          segment_events[Len(segment_events)].segment = segment_idx + 1
    /\ SegmentEventsInOrder

\* The second segment of a job has just ended and had its event.
C31_Witness ==
    /\ BatchJob
    /\ pc \in {"sleep", "next"}
    /\ segment_idx = 1
    /\ Len(segment_events) = 2
    /\ segment_events[1].segment = 1
    /\ segment_events[2].segment = 2

(***************************************************************************)
(* C33: a progress event of a task is emitted while the task's own segment *)
(* runs: after the events of all earlier segments, before the event of its *)
(* own segment, and with no progress event of a later segment behind it.   *)
(***************************************************************************)
C33_ProgressWithinOwnSegment ==
    [][BatchJob =>
        \A p \in Positions :
            ProgressOf(p)' # ProgressOf(p) =>
                /\ InSegment
                /\ SegmentOf(p) = segment_idx
                /\ Len(segment_events) = SegmentOf(p)
                /\ segment_events' = segment_events
                /\ \A q \in DOMAIN progress : SegmentOf(q) <= SegmentOf(p)]_vars

\* Tasks of the first and of the second segment have emitted their events,
\* with the first segment's event between them.
C33_Witness ==
    /\ BatchJob
    /\ InSegment
    /\ segment_idx = 1
    /\ Len(segment_events) = 1
    /\ \E p, q \in DOMAIN progress :
          /\ SegmentOf(p) = 0 /\ Len(progress[p]) = 1
          /\ SegmentOf(q) = 1 /\ Len(progress[q]) = 1

(***************************************************************************)
(* C34: the number of tasks in flight never exceeds the smaller of the     *)
(* window's size and the effective segment size: one at a time with        *)
(* segment size 1, at most two with segment size 2.                        *)
(***************************************************************************)
C34_InFlightAtMostSegment ==
    (BatchJob /\ PassedPreflight) =>
        /\ Cardinality(InFlight) <=
              Min(MAX_CONCURRENT_DOWNLOADS, EffectiveSegmentSize)
        /\ Cardinality(download_tasks) <=
              Min(MAX_CONCURRENT_DOWNLOADS, EffectiveSegmentSize)
        /\ EffectiveSegmentSize = 1 => Cardinality(InFlight) <= 1
        /\ EffectiveSegmentSize = 2 => Cardinality(InFlight) <= 2

\* A three-identifier job cut into segments of two has its whole first
\* segment in flight, the window not full and the third identifier waiting.
C34_Witness ==
    /\ BatchJob
    /\ Len(job.urls) = MAX_CONCURRENT_DOWNLOADS
    /\ EffectiveSegmentSize = 2
    /\ segment_idx = 0
    /\ pc = "drain"
    /\ Cardinality(InFlight) = 2
    /\ \A i \in InFlight : tasks[i].state = "running"

(***************************************************************************)
(* C35: the provider-error markers count only for a process that exited    *)
(* successfully: a non-zero exit with a marker in stdout is a process      *)
(* failure, a timeout or a spawn failure is never a provider error, and    *)
(* every value of the wait gets one classification, the same in the        *)
(* legacy track function.                                                  *)
(***************************************************************************)
AllResults == UNION {ResultsOf(o) : o \in ProcessOutcomes}

MarkedSuccess(result) ==
    /\ result.kind = "Output"
    /\ result.success
    /\ result.stdout \cap Markers # {}

ExpectedStatus(result) ==
    CASE MarkedSuccess(result) -> StatusYouTube
      [] Succeeded(result) -> StatusDownloaded
      [] result.kind = "Output" /\ ~result.success -> StatusExitFailure
      [] result.kind = "IoError" -> StatusIoError
      [] result.kind = "Elapsed" -> StatusTimeout

C35_MarkersOnlyOnSuccess ==
    /\ \A r \in AllResults :
          LET out == process_download_output(r)
              leg == legacy_track([index |-> 1, total |-> 1, url |-> GoodUrl], r)
          IN /\ ~out.ok <=> MarkedSuccess(r)
             /\ out.ok => out.status = ExpectedStatus(r)
             /\ ~out.ok => out.err = "YouTubeError"
             /\ Len(leg.events) = 1
             /\ leg.events[1].status = ExpectedStatus(r)
             /\ leg.result = "Err" <=> MarkedSuccess(r)
    /\ (SingleJob /\ awaited.kind # "none") =>
          /\ ret = "YouTubeError" <=> MarkedSuccess(awaited)
          /\ ProgressOf(1)[1].status = ExpectedStatus(awaited)
          /\ (awaited.kind = "Output" /\ ~awaited.success) =>
                /\ ret = "Failed"
                /\ ret_value.status = StatusExitFailure
    /\ BatchJob =>
          \A i \in DOMAIN outcome :
             /\ outcome[i] \in {"exit_failure", "io_error", "timeout"} =>
                   /\ Len(ProgressOf(i)) = 1
                   /\ ProgressOf(i)[1].status # StatusYouTube
                   /\ i \in DOMAIN tasks => tasks[i].result = "Ok"
             /\ outcome[i] = "exit_failure" =>
                   ProgressOf(i)[1].status = StatusExitFailure
             /\ outcome[i] = "io_error" =>
                   ProgressOf(i)[1].status = StatusIoError
             /\ outcome[i] = "timeout" =>
                   ProgressOf(i)[1].status = StatusTimeout

\* The process of the single-track command exited non-zero with a marker
\* in its stdout, and the command returned the process failure.
C35_Witness ==
    /\ SingleJob
    /\ pc = "done"
    /\ awaited = Output(FALSE, {AudioProviderError})
    /\ ret = "Failed"
    /\ ProgressOf(1)[1].status = StatusExitFailure

(***************************************************************************)
(* C36: the single-track command attempts exactly one progress event, of   *)
(* index 1 and total 1, whatever its process did; when a validation fails  *)
(* it attempts none and waits for no process; it never runs the probe.     *)
(***************************************************************************)
C36_SingleTrackOneEvent ==
    SingleJob =>
        /\ pc \in {"single_validate", "single_run", "done"}
        /\ error_events = 0
        /\ DOMAIN progress \subseteq {1}
        /\ awaited.kind = "none" => DOMAIN progress = {}
        /\ awaited.kind # "none" =>
              /\ pc = "done"
              /\ Len(ProgressOf(1)) = 1
              /\ ProgressOf(1)[1].index = 1
              /\ ProgressOf(1)[1].total = 1
        /\ (pc = "single_run" \/ awaited.kind # "none") =>
              single_validate(job) = "ok"
        /\ (pc = "done" /\ single_validate(job) # "ok") =>
              /\ awaited.kind = "none"
              /\ ret = single_validate(job)
        /\ (pc = "done" /\ single_validate(job) = "ok") =>
              awaited \in AllResults

\* The single-track command's process could not be spawned; its one event
\* has been attempted.
C36_Witness ==
    /\ SingleJob
    /\ pc = "done"
    /\ awaited.kind = "IoError"
    /\ Len(ProgressOf(1)) = 1
    /\ ProgressOf(1)[1].status = StatusIoError

(***************************************************************************)
(* C39: the legacy command and the service agree: the two tallies give     *)
(* the same counters, the two track functions the same result for every    *)
(* value of the wait, and an ended job's totals and numbers of events are  *)
(* fixed by the list, the segment size and what each task did, whichever   *)
(* of the two ran it.                                                      *)
(***************************************************************************)
C39_LegacyAndServiceAgree ==
    /\ \A r \in {"Ok", "Err", "JoinError"}, d, f \in 0..MaxUrls :
          legacy_count(r, d, f) = count_download_result(r, d, f)
    /\ \A r \in AllResults :
          LET t == [index |-> 1, total |-> 1, url |-> GoodUrl]
          IN legacy_track(t, r).result = service_track(t, r).result
    /\ (BatchJob /\ JobEnded) =>
          /\ total_downloaded =
                Cardinality({p \in 1..Len(job.urls) : outcome[p] \notin ErrOutcomes})
          /\ total_failed =
                Cardinality({p \in 1..Len(job.urls) : outcome[p] \in ErrOutcomes})
          /\ Len(segment_events) = JobSegments
          /\ Len(finished_events) = 1
          /\ finished_events[1].total_downloaded = total_downloaded
          /\ finished_events[1].total_failed = total_failed

\* The legacy command has ended a job of two segments in which a task
\* panicked and another met a provider error.
C39_Witness ==
    /\ BatchJob
    /\ JobEnded
    /\ job.variant = "legacy"
    /\ Len(job.urls) = 4
    /\ JobSegments = 2
    /\ \E p, q \in DOMAIN outcome :
          outcome[p] = "panic" /\ outcome[q] = "provider_error"
    /\ total_failed = 2
    /\ total_downloaded = 2

(***************************************************************************)
(* No download command is running: the state the other commands of the     *)
(* application are modelled in.                                            *)
(***************************************************************************)
NoDownload ==
    /\ job = ProbeCall
    /\ pc = "idle"
    /\ ret = "none"
    /\ ret_value = NoValue
    /\ awaited = NotAwaited
    /\ final_segment_size = 0
    /\ final_delay = 0
    /\ total = 0
    /\ total_downloaded = 0
    /\ total_failed = 0
    /\ segment_idx = 0
    /\ idx_in_chunk = 0
    /\ downloaded = 0
    /\ failed = 0
    /\ download_tasks = {}
    /\ tasks = <<>>
    /\ spawned = <<>>
    /\ outcome = <<>>
    /\ progress = <<>>
    /\ segment_events = <<>>
    /\ finished_events = <<>>
    /\ error_events = 0
    /\ delays = <<>>
    /\ segment_tallies = <<>>
    /\ emit_failed = FALSE

(***************************************************************************)
(* Command builder                                                         *)
(***************************************************************************)
\* Longest directory or template text, in parts
MaxParts == 2

\* A text is the sequence of its parts; the empty text is <<>>.
PathParts == {"music", "{title}"}
Texts == UNION {[1..n -> PathParts] : n \in 0..MaxParts}

\* Option<String>
None == [some |-> FALSE, text |-> <<>>]
Some(t) == [some |-> TRUE, text |-> t]

OutputDirs == {None} \cup {Some(t) : t \in Texts}
OutputTemplates == Texts

\* One argument of the command line, as a text
Arg(s) == <<s>>

\* format!("{}/{}", dir, output_template)
JoinPath(dir, output_template) == dir \o <<"/">> \o output_template

\* DownloadService::build_output_path
build_output_path(output_template, output_dir) ==
    CASE output_dir.some /\ output_template # <<>> ->
            Some(JoinPath(output_dir.text, output_template))
      [] output_dir.some /\ output_template = <<>> -> Some(output_dir.text)
      [] ~output_dir.some /\ output_template # <<>> -> Some(output_template)
      [] ~output_dir.some /\ output_template = <<>> -> None

\* DownloadService::build_spotdl_command: program and arguments
build_spotdl_command(url, format, output_path) ==
    <<Arg("spotdl"), Arg("download"), Arg(url)>>
    \o (IF output_path.some THEN <<Arg("--output"), output_path.text>> ELSE <<>>)
    \o <<Arg("--format"), Arg(format), Arg("--audio"), Arg("youtube-music"),
         Arg("youtube"), Arg("--print-errors")>>

\* The command built inline by
\* download_commands::download_single_track_with_progress
legacy_build_command(url, output_template, format, output_dir) ==
    LET full_output_path ==
            IF output_dir.some
            THEN IF output_template # <<>>
                 THEN JoinPath(output_dir.text, output_template)
                 ELSE output_dir.text
            ELSE output_template
    IN <<Arg("spotdl"), Arg("download"), Arg(url)>>
       \o (IF full_output_path # <<>>
           THEN <<Arg("--output"), full_output_path>> ELSE <<>>)
       \o <<Arg("--format"), Arg(format), Arg("--audio"), Arg("youtube-music"),
            Arg("youtube"), Arg("--print-errors")>>

\* The arguments a track function is called with
BuilderInputs ==
    {[url |-> GoodUrl, format |-> f, output_dir |-> dir,
      output_template |-> tpl, service |-> NotBuilt, legacy |-> NotBuilt] :
        f \in {"mp3", "flac"}, dir \in OutputDirs, tpl \in OutputTemplates}

BuilderInit ==
    /\ NoDownload
    /\ command_line \in BuilderInputs
    /\ session = NoSession
    /\ stream = NoStream

\* The service's track functions build their command
ServiceBuild ==
    /\ ~command_line.service.built
    /\ command_line' =
          [command_line EXCEPT !.service =
              [built |-> TRUE,
               args |-> build_spotdl_command(command_line.url, command_line.format,
                            build_output_path(command_line.output_template,
                                              command_line.output_dir))]]
    /\ UNCHANGED <<download_vars, session, stream>>

\* The legacy track function builds its command
LegacyBuild ==
    /\ ~command_line.legacy.built
    /\ command_line' =
          [command_line EXCEPT !.legacy =
              [built |-> TRUE,
               args |-> legacy_build_command(command_line.url,
                            command_line.output_template, command_line.format,
                            command_line.output_dir)]]
    /\ UNCHANGED <<download_vars, session, stream>>

BuilderNext == ServiceBuild \/ LegacyBuild

BuilderSpec == BuilderInit /\ [][BuilderNext]_vars

(***************************************************************************)
(* Spotify session state                                                   *)
(***************************************************************************)
\* Number of commands invoked on the session state
MaxCalls == 3

Calls == 1..MaxCalls

\* Option::None in SpotifyState.client / SpotifyState.user; a client is
\* named by the call that created it, a profile by the client it was
\* fetched with.
NoClient == 0
NoProfile == 0

IdleCall == [kind |-> "none", pc |-> "idle", spotify |-> NoClient,
             profile |-> NoProfile, ret |-> "none"]
Returned(kind, value) ==
    [kind |-> kind, pc |-> "returned", spotify |-> NoClient,
     profile |-> NoProfile, ret |-> value]

\* SpotifyState::default()
SessionInit ==
    /\ NoDownload
    /\ command_line = NoCommandLine
    /\ session = [client |-> NoClient, user |-> NoProfile,
                  calls |-> [c \in Calls |-> IdleCall]]
    /\ stream = NoStream

\* SpotifyState::set_client
set_client(s, client) == [s EXCEPT !.client = client]

\* SpotifyService::authenticate: the OAuth flow, which touches the shared
\* state only in its last step, set_client; any earlier step can fail
Authenticate(c) ==
    /\ session.calls[c].pc = "idle"
    /\ \E ok \in BOOLEAN :
          session' =
             IF ok
             THEN [set_client(session, c) EXCEPT
                      !.calls[c] = Returned("authenticate", "Ok")]
             ELSE [session EXCEPT
                      !.calls[c] = Returned("authenticate", "AuthenticationFailed")]
    /\ UNCHANGED <<download_vars, command_line, stream>>

\* get_profile, first statement: state.get_client()?
GetClient(c) ==
    /\ session.calls[c].pc = "idle"
    /\ session' =
          IF session.client = NoClient
          THEN [session EXCEPT
                   !.calls[c] = Returned("get_profile", "NotAuthenticated")]
          ELSE [session EXCEPT
                   !.calls[c] = [kind |-> "get_profile", pc |-> "current_user",
                                 spotify |-> session.client,
                                 profile |-> NoProfile, ret |-> "none"]]
    /\ UNCHANGED <<download_vars, command_line, stream>>

\* get_profile: spotify.current_user().await, with the clone of the client
CurrentUser(c) ==
    /\ session.calls[c].pc = "current_user"
    /\ \E ok \in BOOLEAN :
          session' =
             IF ok
             THEN [session EXCEPT
                      !.calls[c].pc = "cache",
                      !.calls[c].profile = session.calls[c].spotify]
             ELSE [session EXCEPT
                      !.calls[c] = Returned("get_profile", "GetProfile")]
    /\ UNCHANGED <<download_vars, command_line, stream>>

\* SpotifyService::cache_user_profile
cache_user_profile(s, profile) == [s EXCEPT !.user = profile]

\* get_profile: cache_user_profile(state, &profile)?; Ok(profile)
CacheUserProfile(c) ==
    /\ session.calls[c].pc = "cache"
    /\ session' =
          [cache_user_profile(session, session.calls[c].profile) EXCEPT
              !.calls[c] = Returned("get_profile", "Ok")]
    /\ UNCHANGED <<download_vars, command_line, stream>>

\* SpotifyState::clear, first block: the client lock taken and released
ClearClient(c) ==
    /\ session.calls[c].pc = "idle"
    /\ session' =
          [session EXCEPT
              !.client = NoClient,
              !.calls[c] = [kind |-> "logout", pc |-> "clear_user",
                            spotify |-> NoClient, profile |-> NoProfile,
                            ret |-> "none"]]
    /\ UNCHANGED <<download_vars, command_line, stream>>

\* SpotifyState::clear, second block: the user lock taken and released
ClearUser(c) ==
    /\ session.calls[c].pc = "clear_user"
    /\ session' =
          [session EXCEPT
              !.user = NoProfile,
              !.calls[c] = Returned("logout", "Ok")]
    /\ UNCHANGED <<download_vars, command_line, stream>>

SessionNext ==
    \/ \E c \in Calls : Authenticate(c)
    \/ \E c \in Calls : GetClient(c)
    \/ \E c \in Calls : CurrentUser(c)
    \/ \E c \in Calls : CacheUserProfile(c)
    \/ \E c \in Calls : ClearClient(c)
    \/ \E c \in Calls : ClearUser(c)

SessionSpec == SessionInit /\ [][SessionNext]_vars

(***************************************************************************)
(* Liked-songs stream                                                      *)
(***************************************************************************)
SPOTIFY_BATCH_SIZE == 50
MAX_RETRY_ATTEMPTS == 3

\* Largest number of saved tracks in the user's library
MaxLiked == 120

\* The locals of stream_all_liked_songs, the events it emitted and its
\* return value; as history, the consecutive failed fetches since the last
\* successful one, the number of full pages received and passed on, the size of
\* the last page received, and whether an emit returned an error.
NewStream(authenticated, liked) ==
    [pc |-> "get_client", authenticated |-> authenticated, liked |-> liked,
     total_tracks |-> 0, offset |-> 0, total_sent |-> 0, retries |-> 0,
     events |-> <<>>, ret |-> "none",
     started |-> FALSE, in_row |-> 0, full_pages |-> 0, last_page |-> -1,
     emit_failed |-> FALSE]

StreamInit ==
    /\ NoDownload
    /\ command_line = NoCommandLine
    /\ session = NoSession
    /\ stream \in {NewStream(TRUE, n) : n \in 0..MaxLiked}
                    \cup {NewStream(FALSE, 0)}

StreamEnd(s, value) == [s EXCEPT !.pc = "done", !.ret = value]

\* let spotify = state.get_client()?
StreamGetClient ==
    /\ stream.pc = "get_client"
    /\ stream' = IF stream.authenticated
                 THEN [stream EXCEPT !.pc = "get_total"]
                 ELSE StreamEnd(stream, "NotAuthenticated")
    /\ UNCHANGED <<download_vars, command_line, session>>

\* get_total_tracks(&spotify).await?: one request, not retried
GetTotalTracks ==
    /\ stream.pc = "get_total"
    /\ \E ok \in BOOLEAN :
          stream' = IF ok
                    THEN [stream EXCEPT !.pc = "emit_start",
                                        !.total_tracks = stream.liked,
                                        !.started = TRUE]
                    ELSE StreamEnd(stream, "GetSavedTracks")
    /\ UNCHANGED <<download_vars, command_line, session>>

\* emit_start_event(window, total_tracks)?
EmitStart ==
    /\ stream.pc = "emit_start"
    /\ \E emit_ok \in BOOLEAN :
          stream' =
             IF emit_ok
             THEN [stream EXCEPT
                      !.pc = "fetch",
                      !.events = Append(stream.events,
                          [name |-> "start", total |-> stream.total_tracks])]
             ELSE StreamEnd([stream EXCEPT !.emit_failed = TRUE], "Unknown")
    /\ UNCHANGED <<download_vars, command_line, session>>

\* saved.items.len() of the page requested with limit SPOTIFY_BATCH_SIZE
\* at the offset, from a library of liked tracks
PageItems(liked, offset) ==
    Min(SPOTIFY_BATCH_SIZE, Max(0, liked - offset))

\* The test written with < for <=: a full page taken for the last
IsLastPage_FullToo(batch_size) == batch_size <= SPOTIFY_BATCH_SIZE

\* batch_size < SPOTIFY_BATCH_SIZE
IsLastPage(batch_size) == batch_size < SPOTIFY_BATCH_SIZE

\* The Ok arm of the loop: the batch event, the test for the last page,
\* the offset and retry counter for the next page
FetchOk ==
    /\ stream.pc = "fetch"
    /\ \E emit_ok \in BOOLEAN :
          LET batch_size == PageItems(stream.liked, stream.offset)
              sent == stream.total_sent + batch_size
              got == [stream EXCEPT !.total_sent = sent, !.in_row = 0,
                                    !.last_page = batch_size]
          IN stream' =
               IF ~emit_ok
               THEN StreamEnd([got EXCEPT !.emit_failed = TRUE], "Unknown")
               ELSE LET emitted ==
                          [got EXCEPT !.events = Append(stream.events,
                              [name |-> "batch", total |-> sent])]
                    IN IF IsLastPage(batch_size)
                       THEN [emitted EXCEPT !.pc = "complete"]
                       ELSE [emitted EXCEPT
                                !.offset = stream.offset + SPOTIFY_BATCH_SIZE,
                                !.retries = 0,
                                !.full_pages = stream.full_pages + 1]
    /\ UNCHANGED <<download_vars, command_line, session>>

\* The test written with > for >=: one more attempt than the limit
RetriesExhausted_OffByOne(retries) == retries > MAX_RETRY_ATTEMPTS

\* retries >= MAX_RETRY_ATTEMPTS
RetriesExhausted(retries) == retries >= MAX_RETRY_ATTEMPTS

\* The Err arm of the loop: count the failure, give up (the error event's
\* emit result is dropped) or sleep a second and fetch the same offset
FetchErr ==
    /\ stream.pc = "fetch"
    /\ LET failed_once == [stream EXCEPT !.retries = stream.retries + 1,
                                         !.in_row = stream.in_row + 1]
       IN stream' =
            IF RetriesExhausted(failed_once.retries)
            THEN StreamEnd([failed_once EXCEPT !.events = Append(stream.events,
                               [name |-> "error", total |-> MAX_RETRY_ATTEMPTS])],
                           "GetSavedTracks")
            ELSE failed_once
    /\ UNCHANGED <<download_vars, command_line, session>>

\* emit_complete_event(window, total_sent)?; Ok(())
EmitComplete ==
    /\ stream.pc = "complete"
    /\ \E emit_ok \in BOOLEAN :
          stream' =
             IF emit_ok
             THEN StreamEnd([stream EXCEPT !.events = Append(stream.events,
                                [name |-> "complete", total |-> stream.total_sent])],
                            "Ok")
             ELSE StreamEnd([stream EXCEPT !.emit_failed = TRUE], "Unknown")
    /\ UNCHANGED <<download_vars, command_line, session>>

StreamNext ==
    \/ StreamGetClient
    \/ GetTotalTracks
    \/ EmitStart
    \/ FetchOk
    \/ FetchErr
    \/ EmitComplete

StreamSpec == StreamInit /\ [][StreamNext]_vars

(***************************************************************************)
(* C32: the output path of the command follows four cases: directory and   *)
(* non-empty template, joined; directory and empty template, the directory *)
(* alone; no directory and a template, the template alone; neither, no     *)
(* output argument; the legacy command's argument list is the same in all  *)
(* four.                                                                   *)
(***************************************************************************)
ExpectedOutputArgs(dir, tpl) ==
    CASE dir.some /\ tpl # <<>> ->
            <<Arg("--output"), dir.text \o <<"/">> \o tpl>>
      [] dir.some /\ tpl = <<>> -> <<Arg("--output"), dir.text>>
      [] ~dir.some /\ tpl # <<>> -> <<Arg("--output"), tpl>>
      [] ~dir.some /\ tpl = <<>> -> <<>>

ExpectedArgs(c) ==
    <<Arg("spotdl"), Arg("download"), Arg(c.url)>>
    \o ExpectedOutputArgs(c.output_dir, c.output_template)
    \o <<Arg("--format"), Arg(c.format), Arg("--audio"), Arg("youtube-music"),
         Arg("youtube"), Arg("--print-errors")>>

\* The service's half of the claim
ServiceFollowsTheCases ==
    command_line.service.built =>
        command_line.service.args = ExpectedArgs(command_line)

C32_OutputPathCases ==
    /\ ServiceFollowsTheCases
    /\ command_line.legacy.built =>
          command_line.legacy.args = ExpectedArgs(command_line)
    /\ (command_line.service.built /\ command_line.legacy.built) =>
          command_line.legacy.args = command_line.service.args

(***************************************************************************)
(* C37: once every call on the session state has returned, a state with    *)
(* no client stored has no cached profile either, however authenticate,    *)
(* get_profile and logout interleaved.                                     *)
(***************************************************************************)
AllReturned ==
    \A c \in Calls : session.calls[c].pc \in {"idle", "returned"}

C37_NoProfileWithoutClient ==
    (AllReturned /\ session.client = NoClient) => session.user = NoProfile

(***************************************************************************)
(* C38: the stream fails exactly when one page's fetch fails               *)
(* MAX_RETRY_ATTEMPTS times in a row; the retry counter is the number of   *)
(* failures since the last successful page; the offset is 50 times the     *)
(* number of full pages received; the stream ends with the completion      *)
(* event exactly when a page of fewer than 50 items was received; the      *)
(* completion event and an error return never go together.                 *)
(***************************************************************************)
StreamEnded == stream.pc = "done"

EventNames == {stream.events[k].name : k \in 1..Len(stream.events)}

RetryAndOffsetRules ==
    /\ stream.pc = "fetch" =>
          /\ stream.retries = stream.in_row
          /\ stream.retries < MAX_RETRY_ATTEMPTS
    /\ stream.in_row <= MAX_RETRY_ATTEMPTS
    /\ stream.offset = SPOTIFY_BATCH_SIZE * stream.full_pages

EndRules ==
    /\ stream.ret # "Ok" <=> stream.in_row = MAX_RETRY_ATTEMPTS
    /\ "error" \in EventNames <=> stream.in_row = MAX_RETRY_ATTEMPTS
    /\ "complete" \in EventNames <=>
          stream.last_page \in 0..(SPOTIFY_BATCH_SIZE - 1)
    /\ "complete" \in EventNames <=> stream.ret = "Ok"
    /\ ~("complete" \in EventNames /\ "error" \in EventNames)

====
